---- MODULE Spec2Model ----
(***************************************************************************)
(* agent-watchtower: the error-event pipeline of the process monitor        *)
(* (services/monitor: ring buffers, debounce table, processing set,         *)
(* process-list cache), the alert sender (services/slack: sendErrorAlert),  *)
(* the retry / dead-letter queue (services/retry-queue.ts) and the rate     *)
(* limiter (services/rate-limiter).                                         *)
(*                                                                         *)
(* Time is Date.now() in milliseconds.  Strings are sequences of byte       *)
(* codes, so that trim, substring, includes and the base64 fingerprint are  *)
(* computed as the code computes them.  An `await` of the code is a point   *)
(* where the handler is suspended and other handlers, timers and the clock  *)
(* may run.  A timer (setTimeout / setInterval) fires when the clock        *)
(* reaches its due time: the clock does not pass a due timer.               *)
(***************************************************************************)
EXTENDS Integers, Sequences, FiniteSets, Bags, TLC

\* ------------------------------------------------------------------ bounds
StartTime == 1000          \* Date.now() when the program is constructed
MaxTicks == 3              \* clock advances explored
MaxInFlight == 2           \* handleError invocations suspended at one time
MaxRetryTicks == 3         \* clock advances explored for the retry queue
MaxQueueCalls == 3         \* queueAlert calls explored
MaxLiveCalls == 2          \* the same over unbounded time
MaxRateTicks == 3          \* clock advances explored for the rate limiters
MaxAlerts == 3             \* sendErrorAlert calls explored
MaxPipeTicks == 2          \* clock advances explored for the whole pipeline
MaxEvents == 2             \* lifecycle events ('process:event') explored
MaxExitTicks == 2          \* clock advances explored after them
MaxInspect == 2            \* calls and writes of a reader of the dead letters
MaxLife == 4               \* start() and stop() calls explored
MaxLifeTicks == 2          \* clock advances explored between them
MaxHealth == 3             \* requests to the routes explored
MaxSweepAdmits == 2        \* admissions after which no further error event is explored
MaxSweepTicks == 3         \* clock advances explored up to a sweep of the table
MaxRemainTicks == 2        \* clock advances explored between readings of a limiter
MaxShieldTicks == 2        \* clock advances explored between requests to both routes

Steps == {1000}            \* amounts by which the clock advances
RateSteps == {500, 59500}  \* the same for the rate limiters: inside a window, and to its end

\* --------------------------------------------------- program constants
\* config.bufferSize (server.ts:417); the schema default is 50, the model
\* runs the same comparison `length > BUFFER_SIZE` with a short buffer.
BUFFER_SIZE == 2
\* config.debounceMs (server.ts:418), a valid configuration (minimum 1000)
DEBOUNCE_MS == 2000
\* config.processListCacheMs (server.ts:419), a valid configuration
PROCESS_LIST_CACHE_MS == 1000
\* server.ts:420
HASH_CLEANUP_INTERVAL == 60000
\* server.ts:609, the delay of the timer that releases a processing key
PROCESSING_RELEASE_MS == 1000
\* server.ts:492, the delay of the timer an 'exit' event sets
EXIT_GRACE_MS == 10000
\* retry-queue.ts:69, the setInterval delay of startProcessor
PROCESSOR_INTERVAL_MS == 1000
\* retry-queue.ts:17; the code keeps 100 dead letters, the model runs the
\* same comparison `length > MAX_DEAD_LETTER_SIZE` with a store of two.
MAX_DEAD_LETTER_SIZE == 2
\* config.retry (config schema: maxRetries 1..10, initialBackoffMs >= 100,
\* maxBackoffMs >= 1000): a valid configuration in which the second delay
\* is the capped one
maxRetries == 2
initialBackoffMs == 1000
maxBackoffMs == 1500
\* RateLimiter.windowMs and the setInterval delay of startCleanup
WINDOW_MS == 60000
CLEANUP_INTERVAL_MS == 300000
\* config.rateLimit (each 1 at least): the limits the two endpoints pass
slashCommandRpm == 2
healthRpm == 1

\* ------------------------------------------------------------- strings
Max(a, b) == IF a >= b THEN a ELSE b
Min(a, b) == IF a <= b THEN a ELSE b

SPACE == 32                \* the white space String.prototype.trim() strips
\* String.prototype.substring(0, n)
Substring0(s, n) == SubSeq(s, 1, Min(Len(s), n))

\* String.prototype.includes(pat)
Includes(s, pat) ==
    \E i \in 0..(Len(s) - Len(pat)) : SubSeq(s, i + 1, i + Len(pat)) = pat

\* String.prototype.trim(): strips the white space at both ends
RECURSIVE TrimLeft(_)
TrimLeft(s) == IF s # <<>> /\ Head(s) = SPACE THEN TrimLeft(Tail(s)) ELSE s
RECURSIVE TrimRight(_)
TrimRight(s) ==
    IF s # <<>> /\ s[Len(s)] = SPACE THEN TrimRight(SubSeq(s, 1, Len(s) - 1)) ELSE s
Trim(s) == TrimRight(TrimLeft(s))

\* the log lines the supervisor delivers (data.data)
LineErr == <<69, 114, 114, 111, 114, 58, 32, 120>>            \* "Error: x"
LineErrPad == <<69, 114, 114, 111, 114, 58, 32, 120, 32>>     \* "Error: x "
LineOk == <<111, 107>>                                        \* "ok"
LineBlank == <<32>>                                           \* " "

\* CRITICAL_PATTERNS of handleLog
CRITICAL_PATTERNS ==
    { <<91, 52, 48, 52, 32, 78, 111, 116, 32, 70, 111, 117, 110, 100, 93>>,  \* "[404 Not Found]"
      <<69, 114, 114, 111, 114, 58>>,                                        \* "Error:"
      <<69, 120, 99, 101, 112, 116, 105, 111, 110, 58>>,                     \* "Exception:"
      <<70, 65, 84, 65, 76>>,                                                \* "FATAL"
      <<91, 69, 82, 82, 79, 82, 93>> }                                       \* "[ERROR]"

\* ------------------------------------------------------ process directory
NoPid == -1                \* data.process?.pm_id === undefined
\* what pm2.list() answers: id -> name
Directory == [p \in {0, 1} |-> IF p = 0 THEN <<119, 48>> ELSE <<119, 49>>]   \* "w0", "w1"
UnknownPid == 2            \* a process id the directory does not list
\* the events of the pipeline runs: one listed process, one error line that
\* ends in white space
PipelinePids == {0}
PipelineLines == {LineErrPad}

NoList == [p \in {} |-> <<>>]

\* the error contexts handed to the retry queue: CtxA and CtxA2 differ only
\* after the 50th character of the message
Rep(c, n) == [i \in 1..n |-> c]
CtxA == [processName |-> <<119, 48>>, errorMessage |-> Rep(120, 50) \o <<49>>]
CtxA2 == [processName |-> <<119, 48>>, errorMessage |-> Rep(120, 50) \o <<50>>]
CtxB == [processName |-> <<119, 49>>, errorMessage |-> <<101>>]
CtxC == [processName |-> <<119, 50>>, errorMessage |-> <<101>>]
RetryContexts == {CtxA, CtxA2, CtxB, CtxC}
QueueErrors == {"refused"}     \* error.message of the failed direct send
SendError == "timeout"         \* error.message of a failed retry

\* hashError: Buffer.from(`${processName}:${errorMessage.substring(0, 100)}`)
\*   .toString('base64').substring(0, 50).
\* 50 base64 characters carry 300 bits: the first 37 bytes and the high four
\* bits of the 38th (padding bits are zero when the text ends earlier).
hashError(errorMessage, processName) ==
    LET normalized == processName \o <<58>> \o Substring0(errorMessage, 100)
    IN  << Substring0(normalized, 37),
           IF Len(normalized) >= 38 THEN normalized[38] \div 16 ELSE 0 >>

\* ------------------------------------------------------------------ state
VARIABLES
    now,               \* Date.now()
    ticks,             \* clock advances so far
    \* ProcessMonitor
    isRunning,         \* ProcessMonitor.isRunning
    sweepDue,          \* due time of hashCleanupInterval, 0 while not set
    logBuffers,        \* Map<number, string[]>: process id -> lines
    errorHashes,       \* Map<string, number>: fingerprint -> last seen
    processListCache,  \* the cache slot: <<>> or <<[data, timestamp]>>
    processingErrors,  \* Set<string>: the keys `${processId}:${errorHash}`
    releaseTimers,     \* pending setTimeout(..., 1000) of handleError
    hs,                \* the suspended handleError invocations (a bag)
    sent,              \* the contexts handed to sendErrorAlert, in order
                       \* (in `direct`, logContext is the array the context
                       \* refers to and `built` the lines it held when built)
    \* history of the monitor
    appended,          \* process id -> the last BUFFER_SIZE + 1 lines appended
    lastAdmit,         \* <<process id, text>> -> time of its latest admission
    nAdmitted,         \* the number of admissions so far
    lastCheck,         \* the latest admission check and what it decided
    lastCall,          \* the latest getCachedProcessList call
    lastLog,           \* the latest log event of the buffer runs, and what
                       \* the listeners did with it
    fetchOkAt,         \* call time of the latest upstream fetch that succeeded
    \* RetryQueue
    queue,             \* Map<string, QueuedAlert> in insertion order: <<[key, obj]>>
    objs,              \* the QueuedAlert objects ever created, by identity
    deadLetterQueue,   \* QueuedAlert[]
    processorDue,      \* due time of processorInterval, 0 while not set
    isProcessing,      \* the run-in-progress flag
    ready,             \* processQueue: the ready alerts not yet retried
    inflight,          \* the alert whose alertSender call is awaited, 0 if none
    \* history of the queue
    nQueued,           \* the number of queueAlert calls so far
    keyCalls,          \* queue key -> the number of queueAlert calls with it
    lastQueue,         \* the latest queueAlert call and what it left
    lastStart,         \* the latest alertSender call of the processor
    lastReturn,        \* the latest return of such a call and what it left
    dlAll,             \* the last MAX_DEAD_LETTER_SIZE + 1 dead letters made
    \* RateLimiter (one per endpoint)
    entries,           \* limiter -> Map<string, RateLimitEntry>
    cleanupDue,        \* due time of the cleanupInterval of the limiters
    \* history of the limiters
    windows,           \* limiter -> identifier -> its window: [start, calls]
    lastLimit,         \* the latest checkLimit call and its answer
    \* sendErrorAlert
    direct,            \* the sendErrorAlert calls awaiting sendToSlack (a bag)
    lastDirect,        \* the latest sendErrorAlert call that ended, and how
    \* history of processQueue
    runs,              \* the processQueue runs that have not ended
    calls,             \* the alertSender calls of the processor in flight
    \* the 'process:event' listener
    exitTimers,        \* pending setTimeout(..., 10000) of 'exit' events
    exitChecks,        \* their getProcessList calls that are awaited
    \* history of the lifecycle events
    nEvents,           \* the number of lifecycle events so far
    exited,            \* process id -> time of its latest 'exit' event
    lastExit,          \* process id -> the latest check of it that ended
    \* history of RetryQueue.stop
    stopAt,            \* the number of queueAlert calls made before the latest
                       \* stop(), -1 before the first
    \* calculateBackoff by itself
    probe,             \* the latest call of a pure function and what it returned
    \* a reader of the dead letters
    dlCopy,            \* the array getDeadLetterQueue returned: <<>> or <<[alias, items]>>
    nInspect,          \* the calls and writes of the reader so far
    \* start() and stop() of the monitor, call by call
    connecting,        \* pm2.connect calls whose callback has not run yet
    connects,          \* history: pm2.connect calls since the latest stop() call
    listeners,         \* setupEventListeners calls: listener sets on the bus
    disconnects,       \* history: pm2.disconnect calls so far
    leaked,            \* due times of sweep intervals whose handle was overwritten
    nLife,             \* start() and stop() calls so far
    \* GET /health
    healthReqs,        \* requests awaiting their process-list fetch
    nHealth,           \* requests so far
    responses,         \* history: the responses sent, in order
    \* POST /slack/status
    slashReqs,         \* requests awaiting their process-list fetch
    started            \* history: <<endpoint, client, window start>> -> the
                       \* process-list fetches its requests started

monVars == <<isRunning, sweepDue, logBuffers, errorHashes, processListCache,
             processingErrors, releaseTimers, hs, sent,
             appended, lastAdmit, nAdmitted, lastCheck, lastCall, fetchOkAt,
             lastLog>>
retryVars == <<queue, objs, deadLetterQueue, processorDue, isProcessing, ready,
               inflight, nQueued, keyCalls, lastQueue, lastStart, lastReturn, dlAll>>
rateVars == <<entries, cleanupDue, windows, lastLimit>>
alertVars == <<direct, lastDirect>>
procVars == <<runs, calls>>
clockVars == <<now, ticks>>
oldExt == <<exitTimers, exitChecks, nEvents, exited, lastExit, stopAt, probe>>
deadVars == <<dlCopy, nInspect>>
lifeVars == <<connecting, connects, listeners, disconnects, leaked, nLife>>
healthVars == <<healthReqs, nHealth, responses>>
shieldVars == <<slashReqs, started>>
extVars == <<oldExt, deadVars, lifeVars, healthVars, shieldVars>>
vars == <<clockVars, monVars, retryVars, rateVars, alertVars, procVars, extVars>>

NoBuffers == [p \in {} |-> <<>>]
NoHashes == [h \in {} |-> 0]
NoCheck == [pid |-> NoPid, msg |-> <<>>, callNow |-> 0, fetched |-> FALSE,
            outcome |-> "none", t |-> 0, prev |-> 0, held |-> FALSE, slotAge |-> -1]
NoCall == [t |-> 0, fetched |-> FALSE, covered |-> FALSE]
NoLog == [pid |-> NoPid, line |-> <<>>, err |-> FALSE, stored |-> FALSE, calls |-> 0]

InitMon ==
    /\ isRunning = FALSE
    /\ sweepDue = 0
    /\ logBuffers = NoBuffers
    /\ errorHashes = NoHashes
    /\ processListCache = <<>>
    /\ processingErrors = {}
    /\ releaseTimers = {}
    /\ hs = EmptyBag
    /\ sent = <<>>
    /\ appended = NoBuffers
    /\ lastAdmit = NoHashes
    /\ nAdmitted = 0
    /\ lastCheck = NoCheck
    /\ lastCall = NoCall
    /\ fetchOkAt = 0
    /\ lastLog = NoLog

InitClock ==
    /\ now = StartTime
    /\ ticks = 0

\* ------------------------------------------------------------ the clock
\* The clock advances by one of Steps, or straight to the next due timer,
\* and never passes a due timer.
Advance(due, max, steps) ==
    /\ ticks < max
    /\ \A t \in due : t > now
    /\ \E d \in steps \cup {t - now : t \in due} :
          /\ d > 0
          /\ \A t \in due : now + d <= t
          /\ now' = now + d
    /\ ticks' = ticks + 1

\* -------------------------------------------------------- ProcessMonitor
\* start(): connects, sets up the bus listeners and the periodic sweep
MonitorStart ==
    /\ ~isRunning
    /\ isRunning' = TRUE
    /\ sweepDue' = now + HASH_CLEANUP_INTERVAL
    /\ UNCHANGED <<logBuffers, errorHashes, processListCache, processingErrors,
                   releaseTimers, hs, sent, appended, lastAdmit, nAdmitted,
                   lastCheck, lastCall, fetchOkAt>>
    /\ UNCHANGED <<lastLog, clockVars, retryVars, rateVars, alertVars, procVars, extVars>>

\* start(), lines 426-431 and the pm2.connect call of line 433: the flag is
\* tested here and set only in the callback
StartCall ==
    /\ nLife < MaxLife
    /\ nLife' = nLife + 1
    /\ IF isRunning
         THEN UNCHANGED <<connecting, connects>>
         ELSE /\ connecting' = connecting + 1
              /\ connects' = connects + 1
    /\ UNCHANGED <<listeners, disconnects, leaked>>
    /\ UNCHANGED <<oldExt, deadVars, healthVars, shieldVars>>
    /\ UNCHANGED <<clockVars, monVars, retryVars, rateVars, alertVars, procVars>>

\* the callback of pm2.connect, lines 433-444: on an error the promise is
\* rejected; otherwise setupEventListeners (449-705) registers the bus
\* listeners and assigns a new sweep interval to hashCleanupInterval, and the
\* flag is set.  An interval already held keeps firing without a handle.
ConnectReturn(ok) ==
    /\ connecting > 0
    /\ connecting' = connecting - 1
    /\ IF ok
         THEN /\ listeners' = listeners + 1
              /\ isRunning' = TRUE
              /\ sweepDue' = now + HASH_CLEANUP_INTERVAL
              /\ leaked' = leaked \cup (IF sweepDue # 0 THEN {sweepDue} ELSE {})
         ELSE UNCHANGED <<listeners, isRunning, sweepDue, leaked>>
    /\ UNCHANGED <<connects, disconnects, nLife>>
    /\ UNCHANGED <<logBuffers, errorHashes, processListCache, processingErrors,
                   releaseTimers, hs, sent, appended, lastAdmit, nAdmitted,
                   lastCheck, lastCall, fetchOkAt, lastLog>>
    /\ UNCHANGED <<oldExt, deadVars, healthVars, shieldVars>>
    /\ UNCHANGED <<clockVars, retryVars, rateVars, alertVars, procVars>>

ConnectOk == ConnectReturn(TRUE)
ConnectFail == ConnectReturn(FALSE)

\* stop(), lines 707-717
StopCall ==
    /\ nLife < MaxLife
    /\ nLife' = nLife + 1
    /\ connects' = 0
    /\ IF ~isRunning
         THEN UNCHANGED <<isRunning, sweepDue, disconnects>>
         ELSE /\ sweepDue' = 0
              /\ disconnects' = disconnects + 1
              /\ isRunning' = FALSE
    /\ UNCHANGED <<connecting, listeners, leaked>>
    /\ UNCHANGED <<logBuffers, errorHashes, processListCache, processingErrors,
                   releaseTimers, hs, sent, appended, lastAdmit, nAdmitted,
                   lastCheck, lastCall, fetchOkAt, lastLog>>
    /\ UNCHANGED <<oldExt, deadVars, healthVars, shieldVars>>
    /\ UNCHANGED <<clockVars, retryVars, rateVars, alertVars, procVars>>

\* an interval without a handle fires: the sweep of lines 697-699
LeakedSweep ==
    /\ \E d \in leaked :
          /\ now >= d
          /\ leaked' = (leaked \ {d}) \cup {d + HASH_CLEANUP_INTERVAL}
    /\ errorHashes' = [x \in {y \in DOMAIN errorHashes :
                                 ~(now - errorHashes[y] > DEBOUNCE_MS)} |-> errorHashes[x]]
    /\ UNCHANGED <<isRunning, sweepDue, logBuffers, processListCache, processingErrors,
                   releaseTimers, hs, sent, appended, lastAdmit, nAdmitted, lastCheck,
                   lastCall, fetchOkAt, lastLog>>
    /\ UNCHANGED <<connecting, connects, listeners, disconnects, nLife>>
    /\ UNCHANGED <<oldExt, deadVars, healthVars, shieldVars>>
    /\ UNCHANGED <<clockVars, retryVars, rateVars, alertVars, procVars>>

\* a variant of the append that evicts nothing
PushLineKeepAll(bufs, p, line) ==
    LET old == IF p \in DOMAIN bufs THEN bufs[p] ELSE <<>>
    IN  [q \in DOMAIN bufs \cup {p} |-> IF q = p THEN Append(old, line) ELSE bufs[q]]

\* handleLog, lines 505-520: the ring buffer of the process
PushLine(bufs, p, line) ==
    LET old == IF p \in DOMAIN bufs THEN bufs[p] ELSE <<>>
        pushed == Append(old, line)
        kept == IF Len(pushed) > BUFFER_SIZE THEN Tail(pushed) ELSE pushed
    IN  [q \in DOMAIN bufs \cup {p} |-> IF q = p THEN kept ELSE bufs[q]]

\* history: the lines appended to the buffer of p, the last BUFFER_SIZE + 1
\* of them (one more than the buffer may hold)
Record(hist, p, line) ==
    LET old == IF p \in DOMAIN hist THEN hist[p] ELSE <<>>
        all == Append(old, line)
        kept == IF Len(all) > BUFFER_SIZE + 1 THEN Tail(all) ELSE all
    IN  [q \in DOMAIN hist \cup {p} |-> IF q = p THEN kept ELSE hist[q]]

\* a variant of the classification that finds no pattern
hasErrorNone(logData) == FALSE

\* handleLog, lines 522-535: does a stdout line hold a critical pattern
hasError(logData) == \E pat \in CRITICAL_PATTERNS : Includes(logData, pat)

\* a variant of the test that does not trim the text
EntersLookupUntrimmed(p, line) == p # NoPid /\ line # <<>>

\* handleError, lines 543-547: the events dropped before any lookup
EntersLookup(p, line) == p # NoPid /\ Trim(line) # <<>>

\* a variant of the test that still takes a slot of exactly the cache time
CacheFreshInclusive(cache, t) ==
    cache # <<>> /\ (t - cache[1].timestamp) <= PROCESS_LIST_CACHE_MS

\* getCachedProcessList, lines 643-650: is the slot fresh at `t`
CacheFresh(cache, t) ==
    cache # <<>> /\ (t - cache[1].timestamp) < PROCESS_LIST_CACHE_MS

\* handleError up to its first await (lines 543-551) with the synchronous
\* part of getCachedProcessList (lines 643-654): a hit resolves with the
\* cached list, a miss starts an upstream fetch.
NewHandler(p, line) ==
    [ pid |-> p,
      msg |-> Trim(line),
      pc |-> IF CacheFresh(processListCache, now) THEN "gotList" ELSE "fetching",
      callNow |-> now,
      fetched |-> ~CacheFresh(processListCache, now),
      list |-> IF CacheFresh(processListCache, now) THEN processListCache[1].data ELSE NoList,
      logContext |-> NoPid,
      \* history: the age of the slot at the call, -1 for an empty slot;
      \* ages above PROCESS_LIST_CACHE_MS are recorded as that
      slotAge |-> IF processListCache = <<>> THEN -1
                  ELSE Min(now - processListCache[1].timestamp, PROCESS_LIST_CACHE_MS) ]

Handlers == BagToSet(hs)

\* history: is the call at `now` inside the window of an upstream fetch that
\* was started earlier and has not failed (it succeeded or is still awaited)
Covered ==
    \/ fetchOkAt # 0 /\ now - fetchOkAt < PROCESS_LIST_CACHE_MS
    \/ \E e \in Handlers : e.pc = "fetching" /\ now - e.callNow < PROCESS_LIST_CACHE_MS

\* history: the handleError calls one log event makes: handleLog calls it for
\* a stdout line with a pattern (lines 505-506 and 522-539), the 'log:err'
\* listener calls it for every event (line 462)
HandleErrorCalls(p, line, err) ==
    (IF p # NoPid /\ ~err /\ hasError(line) THEN 1 ELSE 0) + (IF err THEN 1 ELSE 0)

\* one log event of the bus; `err` tells 'log:err' from 'log:out'
\* (lines 456-463 and handleLog, lines 504-540)
LogEvent(p, line, err) ==
    LET toError == IF err THEN TRUE ELSE hasError(line)
        starts == toError /\ EntersLookup(p, line)
    IN  /\ isRunning
        /\ starts => BagCardinality(hs) < MaxInFlight
        /\ IF p = NoPid
             THEN UNCHANGED <<logBuffers, appended>>
             ELSE /\ logBuffers' = PushLine(logBuffers, p, line)
                  /\ appended' = Record(appended, p, line)
        /\ IF starts
             THEN /\ hs' = hs (+) SetToBag({NewHandler(p, line)})
                  /\ lastCall' = [t |-> now, fetched |-> NewHandler(p, line).fetched,
                                  covered |-> Covered]
             ELSE UNCHANGED <<hs, lastCall>>
        /\ UNCHANGED <<isRunning, sweepDue, errorHashes, processListCache,
                       processingErrors, releaseTimers, sent, lastAdmit, nAdmitted,
                       lastCheck, fetchOkAt>>
        /\ UNCHANGED <<clockVars, retryVars, rateVars, alertVars, procVars, extVars>>

\* history: what the listeners did with one log event
LogRecord(p, line, err) ==
    [pid |-> p, line |-> line, err |-> err, stored |-> p # NoPid,
     calls |-> HandleErrorCalls(p, line, err)]

LogOut ==
    /\ \E p \in PipelinePids, line \in PipelineLines : LogEvent(p, line, FALSE)
    /\ UNCHANGED lastLog
LogErr ==
    /\ \E p \in PipelinePids, line \in PipelineLines : LogEvent(p, line, TRUE)
    /\ UNCHANGED lastLog

\* the error line on the stderr of a process the directory does not list
LogErrUnknown ==
    /\ \E line \in PipelineLines : LogEvent(UnknownPid, line, TRUE)
    /\ UNCHANGED lastLog

\* the error events handleError ends at lines 543-547: one without a process
\* id, one without data (`data.data` undefined, stored as '') and one of
\* white space only
LogErrDropped ==
    \E ev \in {<<NoPid, LineErrPad>>, <<0, <<>>>>, <<0, LineBlank>>} :
        LogEvent(ev[1], ev[2], TRUE) /\ lastLog' = LogRecord(ev[1], ev[2], TRUE)

\* the same events of a listed process, of a process missing from the list
\* and without a process id, with an error line, a plain line and a blank one
BufferPids == {0, UnknownPid, NoPid}
BufferLines == {LineErr, LineOk, LineBlank}
\* (these keep the record of the latest event)
LogOutAny ==
    \E p \in BufferPids, line \in BufferLines :
        LogEvent(p, line, FALSE) /\ lastLog' = LogRecord(p, line, FALSE)
LogErrAny ==
    \E p \in BufferPids, line \in BufferLines :
        LogEvent(p, line, TRUE) /\ lastLog' = LogRecord(p, line, TRUE)

\* A resumed handler continues in a microtask: no I/O callback and no timer
\* runs before it.  Only the admission check follows the lookup at once;
\* discoverRepo reads the file system and may take time.
Resumed == \E e \in Handlers : e.pc = "gotList"
Busy == \E e \in Handlers : e.pc \in {"gotList", "discover"}

\* a variant of the cache write that stores an empty list when the fetch failed
SlotAfterCachesFailure(cache, callNow, ok) ==
    <<[data |-> IF ok THEN Directory ELSE NoList, timestamp |-> callNow]>>

\* getCachedProcessList, lines 654-655: `await this.getProcessList()` throws
\* when the fetch failed, so the slot is written after a success only, with
\* the time of the call
SlotAfter(cache, callNow, ok) ==
    IF ok THEN <<[data |-> Directory, timestamp |-> callNow]>> ELSE cache

\* the upstream fetch of a miss returns (getCachedProcessList, lines 654-656):
\* on success the slot is written with the time of the call; a failure
\* rejects, handleError logs it (lines 612-614) and ends.
FetchReturn(e, ok) ==
    /\ ~Busy
    /\ e.pc = "fetching"
    /\ processListCache' = SlotAfter(processListCache, e.callNow, ok)
    /\ IF ok
         THEN /\ hs' = (hs (-) SetToBag({e})) (+)
                       SetToBag({[e EXCEPT !.pc = "gotList", !.list = Directory]})
              /\ fetchOkAt' = Max(fetchOkAt, e.callNow)
         ELSE /\ UNCHANGED fetchOkAt
              /\ hs' = hs (-) SetToBag({e})
    /\ UNCHANGED <<isRunning, sweepDue, logBuffers, errorHashes, processingErrors,
                   releaseTimers, sent, appended, lastAdmit, nAdmitted, lastCheck,
                   lastCall>>
    /\ UNCHANGED <<lastLog, clockVars, retryVars, rateVars, alertVars, procVars, extVars>>

FetchOk == \E e \in Handlers : FetchReturn(e, TRUE)
FetchFail == \E e \in Handlers : FetchReturn(e, FALSE)

\* variants of the debounce test: one that never suppresses, one whose window
\* is closed at its far end
DebouncedNever(hashes, errorHash, t) == FALSE

DebouncedInclusive(hashes, errorHash, t) ==
    /\ errorHash \in DOMAIN hashes
    /\ hashes[errorHash] # 0
    /\ (t - hashes[errorHash]) <= DEBOUNCE_MS

\* handleError, lines 561-567: `lastSeen && (now - lastSeen) < DEBOUNCE_MS`
Debounced(hashes, errorHash, t) ==
    /\ errorHash \in DOMAIN hashes
    /\ hashes[errorHash] # 0
    /\ (t - hashes[errorHash]) < DEBOUNCE_MS

\* a variant of the check whose search of the list finds no process
AdmissionFindsNone(list, pid, msg, hashes, processing, t) == "unknown"

\* handleError, lines 552-574: what the admission check decides
Admission(list, pid, msg, hashes, processing, t) ==
    IF pid \notin DOMAIN list THEN "unknown"
    ELSE LET errorHash == hashError(msg, list[pid])
         IN  IF Debounced(hashes, errorHash, t) THEN "debounced"
             ELSE IF <<pid, errorHash>> \in processing THEN "race"
             ELSE "admitted"

\* what an admitted event writes to the table (line 577)
RecordAdmission(hashes, errorHash, t) ==
    [x \in DOMAIN hashes \cup {errorHash} |-> IF x = errorHash THEN t ELSE hashes[x]]

\* `logBuffers.get(processId) || []`, line 584: the array of the process
\* itself, named by the process id, or an empty array of its own (NoPid)
BufferOf(bufs, p) == IF p \in DOMAIN bufs THEN p ELSE NoPid

\* the lines of the array a context refers to
LinesOf(bufs, ref) == IF ref \in DOMAIN bufs THEN bufs[ref] ELSE <<>>

\* handleError resumes with the list (lines 552-587): the admission check and,
\* for an admitted event, the two writes; it then awaits discoverRepo.
Admit(e) ==
    LET res == Admission(e.list, e.pid, e.msg, errorHashes, processingErrors, now)
        errorHash == hashError(e.msg, e.list[e.pid])
        fp == <<e.pid, e.msg>>
    IN  /\ e.pc = "gotList"
        /\ hs' = IF res = "admitted"
                   THEN (hs (-) SetToBag({e})) (+)
                        SetToBag({[e EXCEPT !.pc = "discover",
                                            !.logContext = BufferOf(logBuffers, e.pid)]})
                   ELSE hs (-) SetToBag({e})
        /\ IF res = "admitted"
             THEN /\ processingErrors' = processingErrors \cup {<<e.pid, errorHash>>}
                  /\ errorHashes' = RecordAdmission(errorHashes, errorHash, now)
                  /\ lastAdmit' = RecordAdmission(lastAdmit, fp, now)
                  /\ nAdmitted' = nAdmitted + 1
             ELSE UNCHANGED <<processingErrors, errorHashes, lastAdmit, nAdmitted>>
        /\ lastCheck' = [pid |-> e.pid, msg |-> e.msg, callNow |-> e.callNow,
                         fetched |-> e.fetched, outcome |-> res, t |-> now,
                         slotAge |-> e.slotAge,
                         prev |-> IF fp \in DOMAIN lastAdmit THEN lastAdmit[fp] ELSE 0,
                         held |-> \/ \E d \in Handlers : /\ d.pc = "discover"
                                                           /\ d.pid = e.pid
                                                           /\ d.msg = e.msg
                                  \/ \E r \in releaseTimers : r.key[1] = e.pid]
        /\ UNCHANGED <<isRunning, sweepDue, logBuffers, processListCache,
                       releaseTimers, sent, appended, lastCall, fetchOkAt>>
        /\ UNCHANGED <<lastLog, clockVars, retryVars, rateVars, alertVars, procVars, extVars>>

AdmitStep == \E e \in Handlers : Admit(e)

\* a variant of the release that does not wait
ReleaseDueNow(t) == t

\* the due time of `setTimeout(() => { ... }, 1000)` set at time t, lines 607-609
ReleaseDue(t) == t + PROCESSING_RELEASE_MS

\* discoverRepo returns (lines 587-610): the context is built and handed to
\* sendErrorAlert, which is not awaited; the finally block arms the timer
\* that releases the processing key.
DiscoverReturn(e) ==
    LET errorHash == hashError(e.msg, e.list[e.pid])
    IN  /\ e.pc = "discover"
        /\ sent' = Append(sent, [processId |-> e.pid, processName |-> e.list[e.pid],
                                 errorMessage |-> e.msg])
        /\ releaseTimers' = releaseTimers \cup
               {[key |-> <<e.pid, errorHash>>, due |-> ReleaseDue(now), armed |-> now]}
        /\ direct' = direct (+) SetToBag({[processId |-> e.pid,
                                            processName |-> e.list[e.pid],
                                            errorMessage |-> e.msg,
                                            logContext |-> e.logContext,
                                            built |-> LinesOf(logBuffers, e.logContext)]})
        /\ hs' = hs (-) SetToBag({e})
        /\ UNCHANGED <<isRunning, sweepDue, logBuffers, errorHashes, processListCache,
                       processingErrors, appended, lastAdmit, nAdmitted, lastCheck,
                       lastCall, fetchOkAt>>
        /\ UNCHANGED <<lastLog, clockVars, retryVars, rateVars, lastDirect, procVars, extVars>>

DiscoverStep == \E e \in Handlers : DiscoverReturn(e)

\* a variant of the failure path that leaves the guarded block without the
\* timer
DiscoverThrowNoTimer(e) ==
    /\ e.pc = "discover"
    /\ hs' = hs (-) SetToBag({e})
    /\ UNCHANGED <<isRunning, sweepDue, logBuffers, errorHashes, processListCache,
                   processingErrors, releaseTimers, sent, appended, lastAdmit,
                   nAdmitted, lastCheck, lastCall, fetchOkAt>>
    /\ UNCHANGED <<lastLog, clockVars, retryVars, rateVars, alertVars, procVars, extVars>>

\* discoverRepo rejects (or the building of the context throws), lines
\* 587-614: no context is handed to sendErrorAlert; the finally block arms
\* the timer all the same and the outer catch logs the error.
DiscoverThrow(e) ==
    LET errorHash == hashError(e.msg, e.list[e.pid])
    IN  /\ e.pc = "discover"
        /\ releaseTimers' = releaseTimers \cup
               {[key |-> <<e.pid, errorHash>>, due |-> ReleaseDue(now), armed |-> now]}
        /\ hs' = hs (-) SetToBag({e})
        /\ UNCHANGED <<isRunning, sweepDue, logBuffers, errorHashes, processListCache,
                       processingErrors, sent, appended, lastAdmit, nAdmitted, lastCheck,
                       lastCall, fetchOkAt>>
        /\ UNCHANGED <<lastLog, clockVars, retryVars, rateVars, alertVars, procVars, extVars>>

DiscoverThrowStep == \E e \in Handlers : DiscoverThrow(e)

\* the timer of lines 607-609 fires
ReleaseKey ==
    \E t \in releaseTimers :
        /\ ~Busy
        /\ now >= t.due
        /\ processingErrors' = processingErrors \ {t.key}
        /\ releaseTimers' = releaseTimers \ {t}
        /\ UNCHANGED <<isRunning, sweepDue, logBuffers, errorHashes, processListCache,
                       hs, sent, appended, lastAdmit, nAdmitted, lastCheck, lastCall,
                       fetchOkAt>>
        /\ UNCHANGED <<lastLog, clockVars, retryVars, rateVars, alertVars, procVars, extVars>>

\* a variant of the sweep that removes what is older than half the window
SweepHashesEarly(hashes, t) ==
    [x \in {y \in DOMAIN hashes : ~(2 * (t - hashes[y]) > DEBOUNCE_MS)} |-> hashes[x]]

\* startPeriodicCleanup, lines 685-699: one run of the sweep
SweepHashes(hashes, t) ==
    [x \in {y \in DOMAIN hashes : ~(t - hashes[y] > DEBOUNCE_MS)} |-> hashes[x]]

Sweep ==
    /\ ~Busy
    /\ sweepDue # 0
    /\ now >= sweepDue
    /\ errorHashes' = SweepHashes(errorHashes, now)
    /\ sweepDue' = sweepDue + HASH_CLEANUP_INTERVAL
    /\ UNCHANGED <<isRunning, logBuffers, processListCache, processingErrors,
                   releaseTimers, hs, sent, appended, lastAdmit, nAdmitted, lastCheck,
                   lastCall, fetchOkAt>>
    /\ UNCHANGED <<lastLog, clockVars, retryVars, rateVars, alertVars, procVars, extVars>>

MonTimers == {t.due : t \in releaseTimers} \cup (IF sweepDue # 0 THEN {sweepDue} ELSE {})

\* index.ts starts the monitor when the program starts
TickMon ==
    /\ isRunning
    /\ ~Resumed
    /\ Advance(MonTimers, MaxTicks, Steps)
    /\ UNCHANGED <<monVars, retryVars, rateVars, alertVars, procVars, extVars>>

\* time passes between the calls of start() and stop()
TickLife ==
    /\ nLife > 0
    /\ Advance(MonTimers \cup leaked, MaxLifeTicks, Steps)
    /\ UNCHANGED <<monVars, retryVars, rateVars, alertVars, procVars, extVars>>

\* ------------------------------------------------------------ RetryQueue
\* An alert object lives on the heap `objs` and is named by its index there:
\* the Map and the list of ready alerts hold references.  `tries`, `since`
\* and `delivered` are history: the sends started for the object, the time it
\* was queued or last failed, and whether a send of it succeeded.
NoQueueCall == [key |-> <<>>, t |-> 0, existed |-> FALSE, ceiling |-> FALSE,
                errorContext |-> <<>>, error |-> "", before |-> <<>>, after |-> <<>>,
                sizeBefore |-> 0, sizeAfter |-> 0]
NoStart == [obj |-> 0, key |-> <<>>, k |-> 0, at |-> 0, since |-> 0]
NoReturn == [obj |-> 0, key |-> <<>>, ok |-> FALSE, t |-> 0, tries |-> 0,
             before |-> <<>>, after |-> <<>>, dead |-> FALSE, dlTail |-> <<>>,
             swapped |-> FALSE]

InitRetry ==
    /\ queue = <<>>
    /\ objs = <<>>
    /\ deadLetterQueue = <<>>
    /\ processorDue = 0
    /\ isProcessing = FALSE
    /\ ready = <<>>
    /\ inflight = 0
    /\ nQueued = 0
    /\ keyCalls = NoHashes
    /\ lastQueue = NoQueueCall
    /\ lastStart = NoStart
    /\ lastReturn = NoReturn
    /\ dlAll = <<>>

\* a variant of the key that takes the whole message
getQueueKeyWhole(errorContext) ==
    errorContext.processName \o <<58>> \o errorContext.errorMessage

\* getQueueKey, lines 182-186
getQueueKey(errorContext) ==
    errorContext.processName \o <<58>> \o Substring0(errorContext.errorMessage, 50)

RECURSIVE Pow2(_)
Pow2(n) == IF n <= 0 THEN 1 ELSE 2 * Pow2(n - 1)

\* a variant of the backoff that doubles once more
BackoffEarly(retry, attemptCount) ==
    Min(retry.initialBackoffMs * Pow2(attemptCount + 1), retry.maxBackoffMs)

\* calculateBackoff, lines 171-177, under the configuration `retry`
Backoff(retry, attemptCount) ==
    Min(retry.initialBackoffMs * Pow2(attemptCount), retry.maxBackoffMs)

\* a variant of the backoff without the doubling
calculateBackoffFlat(attemptCount) == Min(initialBackoffMs, maxBackoffMs)

\* calculateBackoff, lines 171-177, under the configuration of the model
calculateBackoff(attemptCount) ==
    Backoff([initialBackoffMs |-> initialBackoffMs, maxBackoffMs |-> maxBackoffMs],
            attemptCount)

\* configurations the schema accepts (maxRetries 1..10, initialBackoffMs 100
\* at least, maxBackoffMs 1000 at least): the one of the model, the defaults
\* with a smaller first delay, one whose first delay is the cap and one whose
\* first delay is above it
RetryConfigs ==
    { [maxRetries |-> maxRetries, initialBackoffMs |-> initialBackoffMs,
       maxBackoffMs |-> maxBackoffMs],
      [maxRetries |-> 10, initialBackoffMs |-> 100, maxBackoffMs |-> 32000],
      [maxRetries |-> 5, initialBackoffMs |-> 1000, maxBackoffMs |-> 32000],
      [maxRetries |-> 3, initialBackoffMs |-> 1000, maxBackoffMs |-> 1000],
      [maxRetries |-> 1, initialBackoffMs |-> 3000, maxBackoffMs |-> 1000] }

\* calculateBackoff is applied to every attempt count of a configuration
BackoffCall ==
    /\ \E retry \in RetryConfigs :
          probe' = <<[retry |-> retry,
                      delays |-> [k \in 0..(retry.maxRetries - 1) |-> Backoff(retry, k)]]>>
    /\ UNCHANGED <<exitTimers, exitChecks, nEvents, exited, lastExit, stopAt, deadVars, lifeVars, healthVars, shieldVars>>
    /\ UNCHANGED <<clockVars, monVars, retryVars, rateVars, alertVars, procVars>>

\* Map.get / Map.set / Map.delete on the insertion-ordered queue
QueueIndex(q, key) ==
    IF \E i \in 1..Len(q) : q[i].key = key
      THEN CHOOSE i \in 1..Len(q) : q[i].key = key
      ELSE 0

QueueSet(q, key, o) ==
    IF QueueIndex(q, key) # 0
      THEN [q EXCEPT ![QueueIndex(q, key)] = [key |-> key, obj |-> o]]
      ELSE Append(q, [key |-> key, obj |-> o])

\* a variant of the removal that leaves the entry in the queue
QueueDeleteNone(q, key) == q

\* Map.delete(key)
QueueDelete(q, key) == SelectSeq(q, LAMBDA e : e.key # key)

\* what the queue stores for a key: <<>> when absent
Stored(q, heap, key) ==
    IF QueueIndex(q, key) = 0 THEN <<>>
    ELSE LET a == heap[q[QueueIndex(q, key)].obj]
         IN  <<[attemptCount |-> a.attemptCount, nextRetryAt |-> a.nextRetryAt,
                createdAt |-> a.createdAt, errorContext |-> a.errorContext,
                lastError |-> a.lastError]>>

\* a variant of the dead-letter insertion that drops the newest entry
moveToDeadLetterDropNewest(dl, errorContext, error, t) ==
    LET pushed == Append(dl, [errorContext |-> errorContext, attemptCount |-> maxRetries,
                              nextRetryAt |-> 0, createdAt |-> t, lastError |-> error])
    IN  IF Len(pushed) > MAX_DEAD_LETTER_SIZE
          THEN SubSeq(pushed, 1, Len(pushed) - 1) ELSE pushed

\* moveToDeadLetter, lines 149-166
moveToDeadLetter(dl, errorContext, error, t) ==
    LET pushed == Append(dl, [errorContext |-> errorContext, attemptCount |-> maxRetries,
                              nextRetryAt |-> 0, createdAt |-> t, lastError |-> error])
    IN  IF Len(pushed) > MAX_DEAD_LETTER_SIZE THEN Tail(pushed) ELSE pushed

\* history: the dead letters made, the last MAX_DEAD_LETTER_SIZE + 1 of them
RecordDeadLetter(all, errorContext, error, t) ==
    LET pushed == Append(all, [errorContext |-> errorContext, attemptCount |-> maxRetries,
                               nextRetryAt |-> 0, createdAt |-> t, lastError |-> error])
    IN  IF Len(pushed) > MAX_DEAD_LETTER_SIZE + 1 THEN Tail(pushed) ELSE pushed

\* a variant of line 38 that starts every queued alert at zero attempts
ExistingAttemptCountReset(q, heap, key) == 0

\* queueAlert, lines 37-38: `existing ? existing.attemptCount : 0`
ExistingAttemptCount(q, heap, key) ==
    IF QueueIndex(q, key) # 0 THEN heap[q[QueueIndex(q, key)].obj].attemptCount ELSE 0

\* queueAlert, line 51: `existing?.createdAt || Date.now()`
ExistingCreatedAt(q, heap, key, t) ==
    IF QueueIndex(q, key) # 0 /\ heap[q[QueueIndex(q, key)].obj].createdAt # 0
      THEN heap[q[QueueIndex(q, key)].obj].createdAt
      ELSE t

Bump(f, key) == [x \in DOMAIN f \cup {key} |-> IF x \in DOMAIN f THEN f[x] + (IF x = key THEN 1 ELSE 0) ELSE 1]

\* queueAlert(errorContext, error), lines 33-59, with startProcessor (64-77)
QueueAlert(errorContext, error) ==
    LET queueKey == getQueueKey(errorContext)
        attemptCount == ExistingAttemptCount(queue, objs, queueKey)
        queuedAlert == [key |-> queueKey,
                        errorContext |-> errorContext,
                        attemptCount |-> attemptCount,
                        nextRetryAt |-> now + calculateBackoff(attemptCount),
                        createdAt |-> ExistingCreatedAt(queue, objs, queueKey, now),
                        lastError |-> error,
                        tries |-> 0,
                        since |-> now,
                        delivered |-> FALSE]
        ceiling == attemptCount >= maxRetries
        objs1 == IF ceiling THEN objs ELSE Append(objs, queuedAlert)
        queue1 == IF ceiling THEN queue ELSE QueueSet(queue, queueKey, Len(objs) + 1)
    IN  /\ nQueued' = nQueued + 1
        /\ keyCalls' = Bump(keyCalls, queueKey)
        /\ objs' = objs1
        /\ queue' = queue1
        /\ IF ceiling
             THEN /\ deadLetterQueue' = moveToDeadLetter(deadLetterQueue, errorContext, error, now)
                  /\ dlAll' = RecordDeadLetter(dlAll, errorContext, error, now)
                  /\ UNCHANGED processorDue
             ELSE /\ UNCHANGED <<deadLetterQueue, dlAll>>
                  /\ processorDue' = IF processorDue # 0 THEN processorDue
                                     ELSE now + PROCESSOR_INTERVAL_MS
        /\ lastQueue' = [key |-> queueKey, t |-> now,
                         existed |-> QueueIndex(queue, queueKey) # 0,
                         ceiling |-> ceiling,
                         errorContext |-> errorContext, error |-> error,
                         before |-> Stored(queue, objs, queueKey),
                         after |-> Stored(queue1, objs1, queueKey),
                         sizeBefore |-> Len(queue), sizeAfter |-> Len(queue1)]
        /\ UNCHANGED <<isProcessing, ready, inflight, lastStart, lastReturn>>
        /\ UNCHANGED <<clockVars, monVars, rateVars, procVars, extVars>>

QueueAlertCall ==
    /\ nQueued < MaxQueueCalls
    /\ \E c \in RetryContexts, e \in QueueErrors : QueueAlert(c, e)
    /\ UNCHANGED alertVars

\* the same calls with fewer contexts: two that share a key, and a third
LiveContexts == {CtxA, CtxA2, CtxB}
QueueAlertLive ==
    /\ nQueued < MaxLiveCalls
    /\ \E c \in LiveContexts, e \in QueueErrors : QueueAlert(c, e)
    /\ UNCHANGED alertVars

\* history: one more send is started for the object
StartTry(heap, o) == [heap EXCEPT ![o].tries = @ + 1]

StartRecord(heap, o) ==
    [obj |-> o, key |-> heap[o].key, k |-> heap[o].tries + 1, at |-> now,
     since |-> heap[o].since]

\* a variant of the scan that finds no alert ready
ReadyAlertsNone(q, heap, t) == <<>>

\* processQueue, lines 101-105: the alerts that are ready, in Map order
ReadyAlerts(q, heap, t) ==
    LET found == SelectSeq(q, LAMBDA e : heap[e.obj].nextRetryAt <= t)
    IN  [i \in 1..Len(found) |-> found[i].obj]

\* a variant of the guard that skips a tick for an empty queue only
SkipsTickEmptyOnly(processing, size) == size = 0

\* processQueue, line 94: `if (this.isProcessing || this.queue.size === 0) return`
SkipsTick(processing, size) == processing \/ size = 0

\* the interval of startProcessor fires: processQueue (lines 93-113) up to
\* its first await, which is the alertSender call of the first ready alert
ProcessorTick ==
    /\ processorDue # 0
    /\ now >= processorDue
    /\ processorDue' = processorDue + PROCESSOR_INTERVAL_MS
    /\ IF SkipsTick(isProcessing, Len(queue)) \/ ReadyAlerts(queue, objs, now) = <<>>
         THEN UNCHANGED <<isProcessing, ready, inflight, objs, lastStart, procVars>>
         ELSE /\ isProcessing' = TRUE
              /\ inflight' = Head(ReadyAlerts(queue, objs, now))
              /\ ready' = Tail(ReadyAlerts(queue, objs, now))
              /\ objs' = StartTry(objs, Head(ReadyAlerts(queue, objs, now)))
              /\ lastStart' = StartRecord(objs, Head(ReadyAlerts(queue, objs, now)))
              /\ runs' = runs + 1
              /\ calls' = calls + 1
    /\ UNCHANGED <<queue, deadLetterQueue, nQueued, keyCalls, lastQueue, lastReturn, dlAll>>
    /\ UNCHANGED <<clockVars, monVars, rateVars, alertVars, extVars>>

\* a variant of the test that gives up one failure later
AtCeilingLate(attemptCount) == attemptCount > maxRetries

\* retryAlert, line 132: `queuedAlert.attemptCount >= config.retry.maxRetries`
AtCeiling(attemptCount) == attemptCount >= maxRetries

\* the alertSender call returns: the rest of retryAlert (lines 123-143) for
\* the alert in flight, then processQueue goes on to the next ready alert or
\* ends (lines 108-112).
SendReturn(ok) ==
    LET o == inflight
        a == objs[o]
        queueKey == getQueueKey(a.errorContext)
        count == a.attemptCount + 1
        dead == ~ok /\ AtCeiling(count)
        objs1 == IF ok THEN [objs EXCEPT ![o].delivered = TRUE]
                 ELSE [objs EXCEPT ![o].attemptCount = count,
                                   ![o].lastError = SendError,
                                   ![o].nextRetryAt =
                                       IF dead THEN @ ELSE now + calculateBackoff(count),
                                   ![o].since = now]
        queue1 == IF ok \/ dead THEN QueueDelete(queue, queueKey) ELSE queue
    IN  /\ inflight # 0
        /\ queue' = queue1
        /\ IF dead
             THEN /\ deadLetterQueue' =
                        moveToDeadLetter(deadLetterQueue, a.errorContext, SendError, now)
                  /\ dlAll' = RecordDeadLetter(dlAll, a.errorContext, SendError, now)
             ELSE UNCHANGED <<deadLetterQueue, dlAll>>
        /\ IF ready # <<>>
             THEN /\ inflight' = Head(ready)
                  /\ ready' = Tail(ready)
                  /\ objs' = StartTry(objs1, Head(ready))
                  /\ lastStart' = StartRecord(objs1, Head(ready))
                  /\ UNCHANGED <<isProcessing, procVars>>
             ELSE /\ inflight' = 0
                  /\ isProcessing' = FALSE
                  /\ objs' = objs1
                  /\ runs' = runs - 1
                  /\ calls' = calls - 1
                  /\ UNCHANGED <<ready, lastStart>>
        /\ lastReturn' = [obj |-> o, key |-> queueKey, ok |-> ok, t |-> now,
                          tries |-> a.tries,
                          before |-> Stored(queue, objs, queueKey),
                          after |-> Stored(queue1, objs1, queueKey),
                          dead |-> dead,
                          dlTail |-> IF dead
                                       THEN <<moveToDeadLetter(deadLetterQueue,
                                                a.errorContext, SendError, now)[
                                                  Len(moveToDeadLetter(deadLetterQueue,
                                                    a.errorContext, SendError, now))]>>
                                       ELSE <<>>,
                          swapped |-> \/ QueueIndex(queue, queueKey) = 0
                                      \/ queue[QueueIndex(queue, queueKey)].obj # o]
        /\ UNCHANGED <<processorDue, nQueued, keyCalls, lastQueue>>
        /\ UNCHANGED <<clockVars, monVars, rateVars, alertVars, extVars>>

SendOk == SendReturn(TRUE)
SendFail == SendReturn(FALSE)

RetryTimers == IF processorDue # 0 THEN {processorDue} ELSE {}

\* time passes once the processor runs
TickRetry ==
    /\ processorDue # 0
    /\ Advance(RetryTimers, MaxRetryTicks, Steps)
    /\ UNCHANGED <<monVars, retryVars, rateVars, alertVars, procVars, extVars>>

\* a variant of stop() that leaves the interval set
RetryStopKeepsInterval ==
    /\ processorDue # 0
    /\ stopAt' = nQueued
    /\ UNCHANGED <<exitTimers, exitChecks, nEvents, exited, lastExit, probe, deadVars, lifeVars, healthVars, shieldVars>>
    /\ UNCHANGED <<clockVars, monVars, retryVars, rateVars, alertVars, procVars>>

\* stop(), lines 82-88: the interval is cleared; nothing else of the queue,
\* and nothing of a run in progress, is touched
RetryStop ==
    /\ processorDue # 0
    /\ processorDue' = 0
    /\ stopAt' = nQueued
    /\ UNCHANGED <<queue, objs, deadLetterQueue, isProcessing, ready, inflight,
                   nQueued, keyCalls, lastQueue, lastStart, lastReturn, dlAll>>
    /\ UNCHANGED <<exitTimers, exitChecks, nEvents, exited, lastExit, probe, deadVars, lifeVars, healthVars, shieldVars>>
    /\ UNCHANGED <<clockVars, monVars, rateVars, alertVars, procVars>>

\* a variant of getDeadLetterQueue that returns the array of the store
CopyOfAlias(dl) == [alias |-> TRUE, items |-> dl]

\* getDeadLetterQueue, lines 208-210: `[...this.deadLetterQueue]` is a new
\* array holding the entries of the store
CopyOf(dl) == [alias |-> FALSE, items |-> [i \in 1..Len(dl) |-> dl[i]]]

GetDeadLetterQueue ==
    /\ nInspect < MaxInspect
    /\ nInspect' = nInspect + 1
    /\ dlCopy' = <<CopyOf(deadLetterQueue)>>
    /\ UNCHANGED <<oldExt, lifeVars, healthVars, shieldVars>>
    /\ UNCHANGED <<clockVars, monVars, retryVars, rateVars, alertVars, procVars>>

\* the reader writes to the array it was given: push, shift, or length = 0.
\* The write lands in the array it names, which is the store's array only if
\* that is what was returned.
Foreign == [errorContext |-> CtxB, attemptCount |-> 0, nextRetryAt |-> 0,
            createdAt |-> 0, lastError |-> "foreign"]
ArrayWrite(items, op) ==
    CASE op = "push" -> Append(items, Foreign)
      [] op = "shift" -> IF items = <<>> THEN items ELSE Tail(items)
      [] OTHER -> <<>>
ModifyCopy ==
    /\ nInspect < MaxInspect
    /\ dlCopy # <<>>
    /\ nInspect' = nInspect + 1
    /\ \E op \in {"push", "shift", "truncate"} :
          IF dlCopy[1].alias
            THEN /\ deadLetterQueue' = ArrayWrite(deadLetterQueue, op)
                 /\ dlCopy' = <<[dlCopy[1] EXCEPT !.items = ArrayWrite(deadLetterQueue, op)]>>
            ELSE /\ dlCopy' = <<[dlCopy[1] EXCEPT !.items = ArrayWrite(@, op)]>>
                 /\ UNCHANGED deadLetterQueue
    /\ UNCHANGED <<queue, objs, processorDue, isProcessing, ready, inflight,
                   nQueued, keyCalls, lastQueue, lastStart, lastReturn, dlAll>>
    /\ UNCHANGED <<oldExt, lifeVars, healthVars, shieldVars>>
    /\ UNCHANGED <<clockVars, monVars, rateVars, alertVars, procVars>>

\* clearDeadLetterQueue, lines 215-218: the store gets a new, empty array
ClearDeadLetterQueue ==
    /\ nInspect < MaxInspect
    /\ deadLetterQueue # <<>>
    /\ nInspect' = nInspect + 1
    /\ deadLetterQueue' = <<>>
    /\ dlCopy' = IF dlCopy # <<>> /\ dlCopy[1].alias
                   THEN <<[alias |-> FALSE, items |-> deadLetterQueue]>> ELSE dlCopy
    /\ UNCHANGED <<queue, objs, processorDue, isProcessing, ready, inflight,
                   nQueued, keyCalls, lastQueue, lastStart, lastReturn, dlAll>>
    /\ UNCHANGED <<oldExt, lifeVars, healthVars, shieldVars>>
    /\ UNCHANGED <<clockVars, monVars, rateVars, alertVars, procVars>>

\* time passes, whether the interval is set or not
TickStop ==
    /\ nQueued > 0
    /\ Advance(RetryTimers, MaxRetryTicks, Steps)
    /\ UNCHANGED <<monVars, retryVars, rateVars, alertVars, procVars, extVars>>

\* Time passes without bound: instead of moving the clock forward by d, every
\* time the queue holds is moved back by d.  The queue only compares its
\* times with the clock and tests createdAt for being non-zero, so a time
\* that would fall to zero or below is kept at 1.  The history is dropped.
Shift(x, d) == IF x = 0 THEN 0 ELSE Max(1, x - d)

ShiftAlert(a, d) ==
    [a EXCEPT !.nextRetryAt = Shift(@, d), !.createdAt = Shift(@, d)]

TickShift ==
    /\ processorDue > now
    /\ \E d \in Steps \cup {processorDue - now} :
          /\ now + d <= processorDue
          /\ processorDue' = processorDue - d
          /\ objs' = [o \in DOMAIN objs |-> [ShiftAlert(objs[o], d) EXCEPT !.since = 0]]
          /\ deadLetterQueue' =
                [i \in DOMAIN deadLetterQueue |-> ShiftAlert(deadLetterQueue[i], d)]
    /\ dlAll' = <<>>
    /\ lastQueue' = NoQueueCall
    /\ lastStart' = NoStart
    /\ lastReturn' = NoReturn
    /\ UNCHANGED <<queue, isProcessing, ready, inflight, nQueued, keyCalls>>
    /\ UNCHANGED <<clockVars, monVars, rateVars, alertVars, procVars, extVars>>

\* -------------------------------------------------------- sendErrorAlert
NoDirect == [n |-> 0, context |-> <<>>, ok |-> FALSE, rejected |-> FALSE]

InitAlert ==
    /\ direct = EmptyBag
    /\ lastDirect = NoDirect
    /\ runs = 0
    /\ calls = 0

\* sendErrorAlert is called (the monitor does it in handleError): the
\* function up to `await sendToSlack(context)`, line 161
SendErrorAlertCall ==
    /\ lastDirect.n + BagCardinality(direct) < MaxAlerts
    /\ \E c \in LiveContexts : direct' = direct (+) SetToBag({c})
    /\ UNCHANGED <<lastDirect, procVars, extVars>>
    /\ UNCHANGED <<clockVars, monVars, retryVars, rateVars>>

\* a variant of the catch block that logs the error and throws it again
OnSendFailureRethrow(context, error) ==
    /\ lastDirect' = [n |-> lastDirect.n + 1, context |-> context, ok |-> FALSE,
                      rejected |-> TRUE]
    /\ UNCHANGED <<clockVars, monVars, retryVars, rateVars, procVars, extVars>>

\* the catch block of sendErrorAlert, lines 162-167: the context goes to
\* queueAlert and the promise of sendErrorAlert is fulfilled
OnSendFailure(context, error) ==
    /\ QueueAlert(context, error)
    /\ lastDirect' = [n |-> lastDirect.n + 1, context |-> context, ok |-> FALSE,
                      rejected |-> FALSE]

\* sendToSlack settles (lines 15-36): axios.post answered 2xx, or it failed
\* (network error, timeout, another status) and sendToSlack threw
DirectReturn(c, ok) ==
    /\ BagIn(c, direct)
    /\ ~Busy
    /\ direct' = direct (-) SetToBag({c})
    /\ IF ok
         THEN /\ lastDirect' = [n |-> lastDirect.n + 1, context |-> c, ok |-> TRUE,
                                rejected |-> FALSE]
              /\ UNCHANGED <<clockVars, monVars, retryVars, rateVars, procVars, extVars>>
         ELSE \E e \in QueueErrors : OnSendFailure(c, e)

DirectOk == \E c \in BagToSet(direct) : DirectReturn(c, TRUE)
DirectFail == \E c \in BagToSet(direct) : DirectReturn(c, FALSE)

\* time passes for the monitor and the retry queue together
TickPipe ==
    /\ isRunning
    /\ ~Resumed
    /\ Advance(MonTimers \cup RetryTimers, MaxPipeTicks, Steps)
    /\ UNCHANGED <<monVars, retryVars, rateVars, alertVars, procVars, extVars>>

\* ------------------------------------------------- lifecycle events
InitExt ==
    /\ exitTimers = {}
    /\ exitChecks = {}
    /\ nEvents = 0
    /\ exited = NoHashes
    /\ lastExit = NoHashes
    /\ stopAt = -1
    /\ probe = <<>>
    /\ dlCopy = <<>>
    /\ nInspect = 0
    /\ connecting = 0
    /\ connects = 0
    /\ listeners = 0
    /\ disconnects = 0
    /\ leaked = {}
    /\ nLife = 0
    /\ healthReqs = {}
    /\ nHealth = 0
    /\ responses = <<>>
    /\ slashReqs = {}
    /\ started = NoHashes

\* line 469: `data.process?.pm_id || data.pm_id`; `||` takes the right-hand
\* side for every falsy left-hand side, 0 as well as undefined
EventProcessId(nested, top) == IF nested # NoPid /\ nested # 0 THEN nested ELSE top

\* the 'process:event' listener, lines 466-495, up to the timer it sets.  A
\* packet is <<data.process.pm_id, data.pm_id>>: the supervisor puts the id in
\* data.process; the third packet has it at the top only.
ProcessEvent ==
    \E event \in {"restart", "exit"}, pk \in {<<0, NoPid>>, <<1, NoPid>>, <<NoPid, 1>>} :
        LET processId == EventProcessId(pk[1], pk[2])
            about == IF pk[1] # NoPid THEN pk[1] ELSE pk[2]
        IN  /\ isRunning
            /\ nEvents < MaxEvents
            /\ nEvents' = nEvents + 1
            /\ exitTimers' = IF event = "exit" /\ processId # NoPid
                               THEN exitTimers \cup {[pid |-> processId,
                                                       due |-> now + EXIT_GRACE_MS]}
                               ELSE exitTimers
            \* history: the process the packet is about, whatever line 469 made of it
            /\ exited' = IF event = "exit" THEN RecordAdmission(exited, about, now)
                           ELSE exited
            /\ UNCHANGED <<exitChecks, lastExit, stopAt, probe, deadVars, lifeVars, healthVars, shieldVars>>
            /\ UNCHANGED <<clockVars, monVars, retryVars, rateVars, alertVars, procVars>>

\* the timer of an 'exit' event fires (lines 475-478): getProcessList is
\* called and awaited
ExitTimerFires ==
    \E t \in exitTimers :
        /\ ~Busy
        /\ now >= t.due
        /\ exitTimers' = exitTimers \ {t}
        /\ exitChecks' = exitChecks \cup {[pid |-> t.pid, at |-> now]}
        /\ UNCHANGED <<nEvents, exited, lastExit, stopAt, probe, deadVars, lifeVars, healthVars, shieldVars>>
        /\ UNCHANGED <<clockVars, monVars, retryVars, rateVars, alertVars, procVars>>

\* getProcessList settles (lines 478-491): the list holds the process, or
\* does not, or the call failed.  The process is taken for gone in the last
\* two cases: its buffer is deleted and the cache slot cleared.
ExitListReturn ==
    \E c \in exitChecks, answer \in {"listed", "absent", "failed"} :
        /\ ~Busy
        /\ exitChecks' = exitChecks \ {c}
        /\ IF answer \in {"absent", "failed"}
             THEN /\ logBuffers' = [q \in DOMAIN logBuffers \ {c.pid} |-> logBuffers[q]]
                  /\ appended' = [q \in DOMAIN appended \ {c.pid} |-> appended[q]]
                  /\ processListCache' = <<>>
             ELSE UNCHANGED <<logBuffers, appended, processListCache>>
        /\ lastExit' = RecordAdmission(lastExit, c.pid, [answer |-> answer, t |-> now])
        /\ UNCHANGED <<exitTimers, nEvents, exited, stopAt, probe, deadVars, lifeVars, healthVars, shieldVars>>
        /\ UNCHANGED <<isRunning, sweepDue, errorHashes, processingErrors, releaseTimers,
                       hs, sent, lastAdmit, nAdmitted, lastCheck, lastCall, fetchOkAt,
                       lastLog>>
        /\ UNCHANGED <<clockVars, retryVars, rateVars, alertVars, procVars>>

\* the plain stdout lines of the processes the events are about
LogOutExit ==
    /\ \E p \in {0, 1} : LogEvent(p, LineOk, FALSE)
    /\ UNCHANGED lastLog

TickExit ==
    /\ isRunning
    /\ ~Resumed
    /\ Advance(MonTimers \cup {t.due : t \in exitTimers}, MaxExitTicks, {EXIT_GRACE_MS})
    /\ UNCHANGED <<monVars, retryVars, rateVars, alertVars, procVars, extVars>>

\* ----------------------------------------------------------- RateLimiter
\* the two singletons, lines 118-120, with the limit their endpoint passes
Limiters == {"slash", "health"}
MaxRequests == [l \in Limiters |-> IF l = "slash" THEN slashCommandRpm ELSE healthRpm]
Clients == [l \in Limiters |-> IF l = "slash" THEN {"10.0.0.1", "10.0.0.2"} ELSE {"10.0.0.1"}]
NoEntries == [i \in {} |-> 0]
NoLimit == [limiter |-> "", identifier |-> "", t |-> 0, allowed |-> FALSE,
            retryAfter |-> 0, before |-> <<>>, after |-> <<>>, index |-> 0,
            windowStart |-> 0, had |-> <<>>]

\* the constructor starts the cleanup interval (lines 15-17, 69-78)
InitRate ==
    /\ entries = [l \in Limiters |-> NoEntries]
    /\ cleanupDue = [l \in Limiters |-> StartTime + CLEANUP_INTERVAL_MS]
    /\ windows = [l \in Limiters |-> NoEntries]
    /\ lastLimit = NoLimit

\* Math.ceil(x / 1000)
CeilSeconds(x) == -((-x) \div 1000)

\* a variant of lines 28-35 that opens a new window on every call
ExpiredAlways(map, identifier, t) == TRUE

\* a variant of line 28 that keeps the window open at the instant it ends
ExpiredStrict(map, identifier, t) ==
    identifier \notin DOMAIN map \/ map[identifier].resetAt < t

\* checkLimit, line 28: `!entry || entry.resetAt <= now`
Expired(map, identifier, t) ==
    identifier \notin DOMAIN map \/ map[identifier].resetAt <= t

\* checkLimit, lines 28-35: the entry the call works on
CurrentEntry(map, identifier, t) ==
    IF Expired(map, identifier, t)
      THEN [count |-> 0, resetAt |-> t + WINDOW_MS, windowStart |-> t]
      ELSE map[identifier]

\* a variant of Map.set that writes the entry under every identifier
PutEntryAll(map, identifier, entry) == [i \in DOMAIN map \cup {identifier} |-> entry]

\* Map.set
PutEntry(map, identifier, entry) ==
    [i \in DOMAIN map \cup {identifier} |-> IF i = identifier THEN entry ELSE map[i]]

\* history: the window of the identifier at `t`, as <<[start, calls]>>; a call
\* made when no window is open opens one
WindowAt(w, identifier, t) ==
    IF identifier \in DOMAIN w /\ t < w[identifier].start + 60000
      THEN w[identifier]
      ELSE [start |-> t, calls |-> 0]

\* checkLimit(identifier, maxRequests), lines 23-46
CheckLimit(l, identifier) ==
    LET maxRequests == MaxRequests[l]
        entry == CurrentEntry(entries[l], identifier, now)
        allowed == ~(entry.count >= maxRequests)
        entry1 == IF allowed THEN [entry EXCEPT !.count = @ + 1] ELSE entry
        win == WindowAt(windows[l], identifier, now)
    IN  /\ entries' = [entries EXCEPT ![l] = PutEntry(@, identifier, entry1)]
        /\ windows' = [windows EXCEPT
                          ![l] = PutEntry(@, identifier, [win EXCEPT !.calls = Min(@ + 1, maxRequests + 1)])]
        /\ lastLimit' = [limiter |-> l, identifier |-> identifier, t |-> now,
                         allowed |-> allowed,
                         retryAfter |-> IF allowed THEN 0
                                        ELSE CeilSeconds(entry.resetAt - now),
                         before |-> IF Expired(entries[l], identifier, now) THEN <<>>
                                    ELSE <<entries[l][identifier]>>,
                         after |-> <<entry1>>,
                         index |-> Min(win.calls + 1, maxRequests + 1),
                         windowStart |-> win.start,
                         had |-> IF identifier \in DOMAIN entries[l]
                                   THEN <<entries[l][identifier]>> ELSE <<>>]
        /\ UNCHANGED cleanupDue

\* a variant of the reading that takes an elapsed window for a live one
getRemainingStale(map, identifier, maxRequests, t) ==
    IF identifier \notin DOMAIN map THEN maxRequests
    ELSE Max(0, maxRequests - map[identifier].count)

\* getRemaining(identifier, maxRequests), lines 51-57
getRemaining(map, identifier, maxRequests, t) ==
    IF identifier \notin DOMAIN map \/ map[identifier].resetAt <= t
      THEN maxRequests
      ELSE Max(0, maxRequests - map[identifier].count)

\* a caller reads the allowance of a client, with the limit of the endpoint
\* or one above it
GetRemainingCall ==
    /\ \E l \in Limiters : \E i \in Clients[l] :
          \E maxRequests \in {MaxRequests[l], MaxRequests[l] + 1} :
              probe' = <<[limiter |-> l, identifier |-> i, maxRequests |-> maxRequests,
                          t |-> now,
                          value |-> getRemaining(entries[l], i, maxRequests, now)]>>
    /\ UNCHANGED <<exitTimers, exitChecks, nEvents, exited, lastExit, stopAt, deadVars, lifeVars, healthVars, shieldVars>>
    /\ UNCHANGED <<clockVars, monVars, retryVars, rateVars, alertVars, procVars>>

\* the slash-command and health routes call it; here without their handlers
CheckLimitCall ==
    /\ \E l \in Limiters : \E i \in Clients[l] : CheckLimit(l, i)
    /\ UNCHANGED <<clockVars, monVars, retryVars, alertVars, procVars, extVars>>

\* what pm2.list hands to its callback: an error, or a list (which may be
\* undefined)
ListAnswers == {[err |-> TRUE, list |-> "undefined"],
                [err |-> FALSE, list |-> "undefined"],
                [err |-> FALSE, list |-> <<0, 1>>]}

\* a variant of the handler that answers 200 whatever the fetch did
HealthBodyAlwaysOk(ans) ==
    [code |-> 200, status |-> "OK",
     processCount |-> IF ans.err \/ ans.list = "undefined" THEN 0 ELSE Len(ans.list)]

\* GET /health, lines 141-154, with getProcessList (659-682): `list || []`
\* mapped element by element; a rejection lands in the catch
HealthBody(ans) ==
    IF ans.err
      THEN [code |-> 503, status |-> "ERROR", processCount |-> -1]
      ELSE [code |-> 200, status |-> "OK",
            processCount |-> Len(IF ans.list = "undefined" THEN <<>> ELSE ans.list)]

\* GET /health, lines 126-141: the limiter, then 429 or the pm2.list call
HealthRequest ==
    /\ nHealth < MaxHealth
    /\ nHealth' = nHealth + 1
    /\ \E ip \in Clients["health"] : CheckLimit("health", ip)
    /\ IF lastLimit'.allowed
         THEN /\ healthReqs' = healthReqs \cup {[id |-> nHealth + 1, at |-> now]}
              /\ started' = Bump(started, <<"health", lastLimit'.identifier,
                                            lastLimit'.windowStart>>)
              /\ UNCHANGED responses
         ELSE /\ responses' = Append(responses,
                                     [id |-> nHealth + 1, code |-> 429, status |-> "ERROR",
                                      processCount |-> -1, retryAfter |-> lastLimit'.retryAfter,
                                      at |-> now, ans |-> <<>>])
              /\ UNCHANGED <<healthReqs, started>>
    /\ UNCHANGED slashReqs
    /\ UNCHANGED <<oldExt, deadVars, lifeVars>>
    /\ UNCHANGED <<clockVars, monVars, retryVars, alertVars, procVars>>

\* the pm2.list callback of a health request runs, and the handler answers
HealthListReturn ==
    /\ \E r \in healthReqs, ans \in ListAnswers :
          /\ healthReqs' = healthReqs \ {r}
          /\ responses' = Append(responses,
                                 [id |-> r.id, code |-> HealthBody(ans).code,
                                  status |-> HealthBody(ans).status,
                                  processCount |-> HealthBody(ans).processCount,
                                  retryAfter |-> 0, at |-> now, ans |-> <<ans>>])
    /\ UNCHANGED nHealth
    /\ UNCHANGED <<oldExt, deadVars, lifeVars, shieldVars>>
    /\ UNCHANGED <<clockVars, monVars, retryVars, rateVars, alertVars, procVars>>

\* a variant of the route that verifies and fetches before it asks the limiter
RouteOutcomeLimitLast(allowed, signed) ==
    IF ~signed THEN 401 ELSE 0

\* POST /slack/status, lines 99-116: what the route does before the fetch;
\* 0 stands for going on to getProcessList
RouteOutcome(allowed, signed) ==
    IF ~allowed THEN 429
    ELSE IF ~signed THEN 401
    ELSE 0

\* POST /slack/status, lines 93-116: the limiter, then 429, 401 or the
\* pm2.list call.  `signed` is what verifySlackSignature answers.
SlashRequest ==
    /\ nHealth < MaxHealth
    /\ nHealth' = nHealth + 1
    /\ \E ip \in Clients["slash"], signed \in BOOLEAN :
          /\ CheckLimit("slash", ip)
          /\ IF RouteOutcome(lastLimit'.allowed, signed) = 0
               THEN /\ slashReqs' = slashReqs \cup {[id |-> nHealth + 1, at |-> now]}
                    /\ started' = Bump(started, <<"slash", ip, lastLimit'.windowStart>>)
                    /\ UNCHANGED responses
               ELSE /\ responses' = Append(responses,
                           [id |-> nHealth + 1,
                            code |-> RouteOutcome(lastLimit'.allowed, signed),
                            status |-> "", processCount |-> -1,
                            retryAfter |-> IF lastLimit'.allowed THEN 0
                                           ELSE lastLimit'.retryAfter,
                            at |-> now, ans |-> <<>>])
                    /\ UNCHANGED <<slashReqs, started>>
    /\ UNCHANGED healthReqs
    /\ UNCHANGED <<oldExt, deadVars, lifeVars>>
    /\ UNCHANGED <<clockVars, monVars, retryVars, alertVars, procVars>>

\* the pm2.list callback of a slash command runs: the status report
\* (lines 117-119), or the catch of lines 120-126
SlashListReturn ==
    /\ \E r \in slashReqs, ans \in ListAnswers :
          /\ slashReqs' = slashReqs \ {r}
          /\ responses' = Append(responses,
                                 [id |-> r.id, code |-> IF ans.err THEN 500 ELSE 200,
                                  status |-> "", processCount |-> -1,
                                  retryAfter |-> 0, at |-> now, ans |-> <<ans>>])
    /\ UNCHANGED <<nHealth, healthReqs, started>>
    /\ UNCHANGED <<oldExt, deadVars, lifeVars>>
    /\ UNCHANGED <<clockVars, monVars, retryVars, rateVars, alertVars, procVars>>

\* cleanup, lines 83-97: the interval of one limiter fires
Cleanup(l) ==
    /\ now >= cleanupDue[l]
    /\ entries' = [entries EXCEPT
                      ![l] = [i \in {j \in DOMAIN @ : ~(@[j].resetAt <= now)} |-> @[i]]]
    /\ cleanupDue' = [cleanupDue EXCEPT ![l] = @ + CLEANUP_INTERVAL_MS]
    /\ UNCHANGED <<windows, lastLimit>>
    /\ UNCHANGED <<clockVars, monVars, retryVars, alertVars, procVars, extVars>>

CleanupRun == \E l \in Limiters : Cleanup(l)

RateTimers == {cleanupDue[l] : l \in Limiters}

TickRate ==
    /\ Advance(RateTimers, MaxRateTicks, RateSteps)
    /\ UNCHANGED <<monVars, retryVars, rateVars, alertVars, procVars, extVars>>

\* ------------------------------------------------------- specifications
Init == InitClock /\ InitMon /\ InitRetry /\ InitRate /\ InitAlert /\ InitExt

NextMon ==
    \/ MonitorStart
    \/ LogOut
    \/ LogErr
    \/ FetchOk
    \/ FetchFail
    \/ AdmitStep
    \/ DiscoverStep
    \/ ReleaseKey
    \/ Sweep
    \/ TickMon

SpecMon == Init /\ [][NextMon]_vars

\* the log events of several processes while the supervisor answers no
\* list request: the handlers they start end at the failed lookup
NextBuf ==
    \/ MonitorStart
    \/ LogOutAny
    \/ LogErrAny
    \/ FetchFail

SpecBuf == Init /\ [][NextBuf]_vars

\* the retry queue with the direct sends that fail as its callers
NextRetry ==
    \/ QueueAlertCall
    \/ ProcessorTick
    \/ SendOk
    \/ SendFail
    \/ TickRetry

SpecRetry == Init /\ [][NextRetry]_vars

\* the retry queue over unbounded time.  The interval keeps firing, every
\* alertSender call returns, and time goes on.
\* the pipeline from the log event to the retry queue
NextPipe ==
    \/ MonitorStart
    \/ LogErr
    \/ FetchOk
    \/ FetchFail
    \/ AdmitStep
    \/ DiscoverStep
    \/ ReleaseKey
    \/ Sweep
    \/ DirectOk
    \/ DirectFail
    \/ ProcessorTick
    \/ SendOk
    \/ SendFail
    \/ TickPipe
SpecPipe == Init /\ [][NextPipe]_vars

\* the error events of a listed process and of one the directory does not
\* list, up to the alert attempt, at one instant
NextDrop ==
    \/ MonitorStart
    \/ LogErr
    \/ LogErrUnknown
    \/ FetchOk
    \/ FetchFail
    \/ AdmitStep
    \/ DiscoverStep
    \/ DirectOk
    \/ DirectFail
SpecDrop == Init /\ [][NextDrop]_vars

\* the error events of a listed process, among them the ones without a
\* process id or without text, at one instant
NextBlank ==
    \/ MonitorStart
    \/ LogErr
    \/ LogErrDropped
    \/ FetchOk
    \/ FetchFail
    \/ AdmitStep
    \/ DiscoverStep
    \/ DirectOk
    \/ DirectFail
SpecBlank == Init /\ [][NextBlank]_vars

\* the retry queue fed by sendErrorAlert
NextAlert ==
    \/ SendErrorAlertCall
    \/ DirectOk
    \/ DirectFail
    \/ ProcessorTick
    \/ SendOk
    \/ SendFail
    \/ TickRetry
SpecAlert == Init /\ [][NextAlert]_vars

\* the lifecycle events of two processes, with their log lines
NextExit ==
    \/ MonitorStart
    \/ LogOutExit
    \/ ProcessEvent
    \/ ExitTimerFires
    \/ ExitListReturn
    \/ Sweep
    \/ TickExit
SpecExit == Init /\ [][NextExit]_vars

\* process names and error texts given to hashError: a short name, two
\* names longer than the fingerprint, a name that holds the separator and
\* its first part; texts that end in a character that differs, before the
\* cut of the fingerprint, after it, and after the 100th character (49 and
\* 50 are "1" and "2"), and a text that holds the separator
HashNames == {<<119, 48>>, Rep(119, 40) \o <<48>>, Rep(119, 40) \o <<49>>,
              <<119, 58, 120>>, <<119>>}
HashTexts == {Rep(120, n) \o <<c>> : n \in {0, 35, 100}, c \in {49, 50}}
                \cup {<<120, 58, 49>>}

\* hashError is applied to two errors
HashErrorCall ==
    /\ \E n1 \in HashNames, n2 \in HashNames, m1 \in HashTexts, m2 \in HashTexts :
          probe' = <<[a |-> [processName |-> n1, errorMessage |-> m1],
                      b |-> [processName |-> n2, errorMessage |-> m2],
                      hashA |-> hashError(m1, n1),
                      hashB |-> hashError(m2, n2)]>>
    /\ UNCHANGED <<exitTimers, exitChecks, nEvents, exited, lastExit, stopAt, deadVars, lifeVars, healthVars, shieldVars>>
    /\ UNCHANGED <<clockVars, monVars, retryVars, rateVars, alertVars, procVars>>

\* hashError by itself
NextHash == HashErrorCall
SpecHash == Init /\ [][NextHash]_vars

\* the pipeline with a context assembly that may throw
NextDrain ==
    \/ MonitorStart
    \/ LogErr
    \/ FetchOk
    \/ FetchFail
    \/ AdmitStep
    \/ DiscoverStep
    \/ DiscoverThrowStep
    \/ ReleaseKey
    \/ Sweep
    \/ DirectOk
    \/ DirectFail
    \/ ProcessorTick
    \/ SendOk
    \/ SendFail
    \/ TickPipe
SpecDrain == Init /\ [][NextDrain]_vars

\* calculateBackoff by itself, and the retry queue that uses it
NextBackoff ==
    \/ BackoffCall
    \/ QueueAlertLive
    \/ ProcessorTick
    \/ SendOk
    \/ SendFail
    \/ TickRetry
SpecBackoff == Init /\ [][NextBackoff]_vars

\* the retry queue with stop() called at any time
NextStop ==
    \/ QueueAlertLive
    \/ ProcessorTick
    \/ SendOk
    \/ SendFail
    \/ RetryStop
    \/ TickStop
SpecStop == Init /\ [][NextStop]_vars

NextLife ==
    \/ StartCall
    \/ ConnectOk
    \/ ConnectFail
    \/ StopCall
    \/ Sweep
    \/ LeakedSweep
    \/ TickLife
SpecLife == Init /\ [][NextLife]_vars

NextHealth ==
    \/ HealthRequest
    \/ HealthListReturn
    \/ CleanupRun
    \/ TickRate
SpecHealth == Init /\ [][NextHealth]_vars

\* time passes between requests, short of the first sweep of the limiters
TickShield ==
    /\ Advance({}, MaxShieldTicks, RateSteps)
    /\ UNCHANGED <<monVars, retryVars, rateVars, alertVars, procVars, extVars>>

\* two lines on the stderr of one listed process: two fingerprints
LogErrTwo ==
    /\ nAdmitted < MaxSweepAdmits
    /\ \E line \in {LineErr, LineOk} : LogEvent(0, line, TRUE)
    /\ UNCHANGED lastLog

\* time passes between the calls of a limiter and the readings, a window at
\* a time
TickRemain ==
    /\ Advance(RateTimers, MaxRemainTicks, {WINDOW_MS})
    /\ UNCHANGED <<monVars, retryVars, rateVars, alertVars, procVars, extVars>>

\* time passes up to a sweep of the table: to a few seconds before it, then
\* second by second
TickSweep ==
    /\ isRunning
    /\ ~Resumed
    /\ Advance(MonTimers, MaxSweepTicks, {1000, HASH_CLEANUP_INTERVAL - 2000})
    /\ UNCHANGED <<monVars, retryVars, rateVars, alertVars, procVars, extVars>>

NextSweep ==
    \/ MonitorStart
    \/ LogErrTwo
    \/ FetchOk
    \/ AdmitStep
    \/ DiscoverStep
    \/ ReleaseKey
    \/ Sweep
    \/ TickSweep
SpecSweep == Init /\ [][NextSweep]_vars

NextRemain ==
    \/ CheckLimitCall
    \/ GetRemainingCall
    \/ CleanupRun
    \/ TickRemain
SpecRemain == Init /\ [][NextRemain]_vars

NextShield ==
    \/ SlashRequest
    \/ SlashListReturn
    \/ HealthRequest
    \/ HealthListReturn
    \/ TickShield
SpecShield == Init /\ [][NextShield]_vars

NextDead ==
    \/ QueueAlertLive
    \/ ProcessorTick
    \/ SendOk
    \/ SendFail
    \/ TickRetry
    \/ GetDeadLetterQueue
    \/ ModifyCopy
    \/ ClearDeadLetterQueue
SpecDead == Init /\ [][NextDead]_vars

NextLive ==
    \/ QueueAlertLive
    \/ ProcessorTick
    \/ SendOk
    \/ SendFail
    \/ TickShift

\* the two rate limiters with the requests of two clients
NextRate ==
    \/ CheckLimitCall
    \/ CleanupRun
    \/ TickRate

SpecRate == Init /\ [][NextRate]_vars

LiveRetry ==
    /\ Init
    /\ [][NextLive]_vars
    /\ WF_vars(ProcessorTick)
    /\ WF_vars(SendOk \/ SendFail)
    /\ WF_vars(TickShift)

\* ---------------------------------------------------- monitor properties
Checked == lastCheck.outcome \in {"admitted", "debounced", "race"}
Suppressed == lastCheck.outcome \in {"debounced", "race"}

\* the latest check is of an event whose fingerprint was admitted before,
\* less than DEBOUNCE_MS ago
WithinWindow ==
    /\ Checked
    /\ lastCheck.prev # 0
    /\ lastCheck.t - lastCheck.prev < DEBOUNCE_MS

\* the latest check is of an event whose fingerprint was admitted before,
\* DEBOUNCE_MS ago or more
AfterWindow ==
    /\ Checked
    /\ lastCheck.prev # 0
    /\ lastCheck.t - lastCheck.prev >= DEBOUNCE_MS

\* the admitted events, and no others, go on to context assembly and from
\* there to the notification sender
SenderCallsAreAdmissions ==
    /\ Len(sent) + BagCardinality([e \in {d \in Handlers : d.pc = "discover"} |-> hs[e]])
         = nAdmitted
    /\ \A i \in 1..Len(sent) :
          <<sent[i].processId, sent[i].errorMessage>> \in DOMAIN lastAdmit

\* C1: of the events of one known process with one text that are handled
\* within the debounce window, one is admitted and the others are suppressed:
\* the first event with a fingerprint is admitted, an event handled less than
\* DEBOUNCE_MS after an admission of its fingerprint is suppressed (whether
\* it started after the admitted one finished or was suspended on the lookup
\* together with it), and exactly the admitted events reach the sender.
C1_SingleAdmission ==
    /\ WithinWindow => Suppressed
    /\ (Checked /\ lastCheck.prev = 0) => lastCheck.outcome = "admitted"
    /\ SenderCallsAreAdmissions

\* C1: an event that awaited its own fetch since before the admission of the
\* same fingerprint has been suppressed
C1_Witness ==
    /\ WithinWindow
    /\ Suppressed
    /\ lastCheck.fetched
    /\ lastCheck.callNow < lastCheck.prev

\* C2 (as stated): a call of getCachedProcessList starts an upstream fetch
\* exactly when no upstream fetch that succeeded or is still awaited was
\* started less than PROCESS_LIST_CACHE_MS before it.
C2_OneFetchPerWindow ==
    lastCall.t # 0 => (lastCall.fetched <=> ~lastCall.covered)

\* C7 (amended): an event handled less than DEBOUNCE_MS after an admission of
\* its fingerprint is suppressed and causes no sender call; one handled
\* DEBOUNCE_MS or more after it is not debounced, and is admitted again unless
\* the processing key of the earlier admission is still held (context assembly
\* not finished, or its release timer not fired); the last-seen time of a
\* fingerprint is the time of its latest admission.
C7_DebounceTimeline ==
    /\ WithinWindow => Suppressed
    /\ SenderCallsAreAdmissions
    /\ AfterWindow =>
          \/ lastCheck.outcome = "admitted"
          \/ lastCheck.outcome = "race" /\ lastCheck.held
    /\ \A fp \in DOMAIN lastAdmit :
          LET errorHash == hashError(fp[2], Directory[fp[1]])
          IN  errorHash \in DOMAIN errorHashes => errorHashes[errorHash] = lastAdmit[fp]

\* C7: a fingerprint admitted before is admitted again once the window passed
C7_Witness ==
    /\ AfterWindow
    /\ lastCheck.outcome = "admitted"

\* C7 (as stated): an event handled DEBOUNCE_MS or more after the admission
\* of its fingerprint is admitted again.
C7_AdmittedAfterWindow == AfterWindow => lastCheck.outcome = "admitted"

\* the last n elements of a sequence
LastN(seq, n) == SubSeq(seq, Max(1, Len(seq) - n + 1), Len(seq))

\* C6: the buffer of every process holds the last min(k, BUFFER_SIZE) of the
\* k lines appended to it, in arrival order; it is full once more than
\* BUFFER_SIZE lines were appended, and no buffer ever holds more than
\* BUFFER_SIZE lines.
C6_RingBuffer ==
    /\ DOMAIN logBuffers = DOMAIN appended
    /\ \A p \in DOMAIN logBuffers :
          /\ logBuffers[p] = LastN(appended[p], BUFFER_SIZE)
          /\ Len(logBuffers[p]) = Min(Len(appended[p]), BUFFER_SIZE)
          /\ Len(appended[p]) > BUFFER_SIZE => Len(logBuffers[p]) = BUFFER_SIZE
          /\ Len(logBuffers[p]) <= BUFFER_SIZE

\* C6: a buffer that evicted a line which differs from the lines it kept,
\* beside the buffer of another process that is not yet full
C6_Witness ==
    \E p, q \in DOMAIN logBuffers :
        /\ Len(appended[p]) = BUFFER_SIZE + 1
        /\ \A i \in 1..BUFFER_SIZE : logBuffers[p][i] # appended[p][1]
        /\ logBuffers[p][1] # logBuffers[p][2]
        /\ Len(appended[q]) < BUFFER_SIZE

\* the lines of the log events that hold one of the patterns
Matching == {LineErr, LineErrPad}

\* C18 (as stated): the line of every log event with a process id is stored,
\* and the event enters the error path, once, exactly when its line holds one
\* of the patterns, on stdout and on stderr alike.
C18_PatternDecides ==
    (lastLog # NoLog /\ lastLog.pid # NoPid) =>
        /\ lastLog.stored
        /\ lastLog.calls = (IF lastLog.line \in Matching THEN 1 ELSE 0)

\* C18: the line of every log event with a process id is stored as the
\* newest line of the buffer of the process; a stdout event enters the error
\* path exactly when its line holds one of the patterns, a stderr event
\* enters it whatever its line holds; no event enters it more than once.
C18_Classification ==
    lastLog # NoLog =>
        /\ lastLog.pid # NoPid =>
              /\ lastLog.stored
              /\ lastLog.pid \in DOMAIN logBuffers
              /\ logBuffers[lastLog.pid][Len(logBuffers[lastLog.pid])] = lastLog.line
        /\ (~lastLog.err /\ lastLog.pid # NoPid) =>
              lastLog.calls = (IF lastLog.line \in Matching THEN 1 ELSE 0)
        /\ lastLog.err => lastLog.calls = 1
        /\ lastLog.calls <= 1

\* C18: a stderr line without a pattern has entered the error path, after a
\* stdout line with a pattern was stored for the same process
C18_Witness ==
    /\ lastLog.err
    /\ lastLog.pid = 0
    /\ lastLog.line = LineOk
    /\ lastLog.calls = 1
    /\ logBuffers[0] = <<LineErr, LineOk>>

\* ------------------------------------------------------ queue properties
\* the delay the queue is to leave before the attempt that follows
\* `failures` failed ones
RetryDelay(failures) ==
    IF initialBackoffMs * Pow2(failures) < maxBackoffMs
      THEN initialBackoffMs * Pow2(failures)
      ELSE maxBackoffMs

\* queueAlert was called once with this key
Sole(key) == key \in DOMAIN keyCalls /\ keyCalls[key] = 1

\* the sends of the object that have returned
Returned(o) == objs[o].tries - (IF inflight = o THEN 1 ELSE 0)

\* C3: an alert queued by the only queueAlert call with its key, whose sends
\* all fail, is sent by the processor maxRetries times at most; its k-th send
\* starts min(initialBackoffMs * 2^(k-1), maxBackoffMs) or more after it was
\* queued (k = 1) or last failed; it stays in the queue until the
\* maxRetries-th send has failed, which puts it at the tail of the
\* dead-letter store and takes its key out of the queue.
C3_RetryExhaustion ==
    /\ (lastStart.obj # 0 /\ Sole(lastStart.key)) =>
          /\ lastStart.k \in 1..maxRetries
          /\ lastStart.at - lastStart.since >= RetryDelay(lastStart.k - 1)
    /\ \A o \in DOMAIN objs :
          (Sole(objs[o].key) /\ ~objs[o].delivered) =>
              /\ objs[o].tries <= maxRetries
              /\ Returned(o) < maxRetries =>
                    /\ QueueIndex(queue, objs[o].key) # 0
                    /\ queue[QueueIndex(queue, objs[o].key)].obj = o
              /\ Returned(o) = maxRetries => QueueIndex(queue, objs[o].key) = 0
    /\ (lastReturn.obj # 0 /\ Sole(lastReturn.key) /\ ~lastReturn.ok) =>
          /\ lastReturn.dead <=> lastReturn.tries = maxRetries
          /\ lastReturn.dead =>
                /\ lastReturn.after = <<>>
                /\ lastReturn.dlTail # <<>>
                /\ lastReturn.dlTail[1].errorContext = objs[lastReturn.obj].errorContext

\* C3: the maxRetries-th send of such an alert, started after the capped
\* delay, has failed and the alert is a dead letter
C3_Witness ==
    /\ lastReturn.obj # 0
    /\ Sole(lastReturn.key)
    /\ lastReturn.dead
    /\ lastReturn.tries = maxRetries
    /\ lastStart.obj = lastReturn.obj
    /\ lastStart.k = maxRetries
    /\ RetryDelay(lastStart.k - 1) = maxBackoffMs
    /\ RetryDelay(lastStart.k - 1) < initialBackoffMs * Pow2(lastStart.k - 1)
    /\ QueueIndex(queue, lastReturn.key) = 0

\* C5: the dead-letter store holds the last MAX_DEAD_LETTER_SIZE dead letters
\* made, in the order they were made, and never more: an insertion into the
\* full store removes the oldest entry only.
C5_DeadLetterBound ==
    /\ Len(deadLetterQueue) <= MAX_DEAD_LETTER_SIZE
    /\ deadLetterQueue = LastN(dlAll, MAX_DEAD_LETTER_SIZE)

\* C5: three dead letters of different alerts were made, the first one evicted
C5_Witness ==
    /\ Len(dlAll) = MAX_DEAD_LETTER_SIZE + 1
    /\ \A i, j \in 1..Len(dlAll) : i # j => dlAll[i].errorContext # dlAll[j].errorContext
    /\ Len(deadLetterQueue) = MAX_DEAD_LETTER_SIZE

\* C9 (as stated): a failed send of a queued alert raises the attempt count
\* the queue stores for its key by one and sets the stored nextRetryAt to the
\* time of the failure plus the delay, or, when the count reaches maxRetries,
\* removes the key and makes the alert a dead letter.
C9_FailureIncrements ==
    (lastReturn.obj # 0 /\ ~lastReturn.ok /\ lastReturn.before # <<>>) =>
        IF lastReturn.before[1].attemptCount + 1 >= maxRetries
          THEN lastReturn.after = <<>> /\ lastReturn.dead
          ELSE /\ lastReturn.after # <<>>
               /\ lastReturn.after[1].attemptCount = lastReturn.before[1].attemptCount + 1
               /\ lastReturn.after[1].nextRetryAt =
                      lastReturn.t + RetryDelay(lastReturn.after[1].attemptCount)

\* C10: a queueAlert call for a key the queue holds keeps the attemptCount and
\* the createdAt of the entry and the size of the queue, and stores the new
\* error context, the new lastError and nextRetryAt = now + the delay for that
\* attemptCount; no queueAlert call lowers a stored attempt count.
C10_RefreshPreserves ==
    /\ (lastQueue.t # 0 /\ lastQueue.existed) =>
          /\ lastQueue.after # <<>>
          /\ lastQueue.after[1].attemptCount = lastQueue.before[1].attemptCount
          /\ lastQueue.after[1].createdAt = lastQueue.before[1].createdAt
          /\ lastQueue.sizeAfter = lastQueue.sizeBefore
          /\ lastQueue.after[1].errorContext = lastQueue.errorContext
          /\ lastQueue.after[1].lastError = lastQueue.error
          /\ lastQueue.after[1].nextRetryAt =
                 lastQueue.t + RetryDelay(lastQueue.before[1].attemptCount)
    /\ (lastQueue.t # 0 /\ lastQueue.before # <<>> /\ lastQueue.after # <<>>) =>
          lastQueue.after[1].attemptCount >= lastQueue.before[1].attemptCount

\* C10: an entry that failed once, queued earlier with another context, has
\* been refreshed
C10_Witness ==
    /\ lastQueue.t # 0
    /\ lastQueue.existed
    /\ lastQueue.before[1].attemptCount >= 1
    /\ lastQueue.before[1].errorContext # lastQueue.errorContext
    /\ lastQueue.before[1].createdAt < lastQueue.t
    /\ lastQueue.before[1].lastError # lastQueue.error

\* the branch of queueAlert for an existing entry at the ceiling is never
\* taken: an object in the queue has failed fewer than maxRetries times,
\* because the failure that brings the count to maxRetries removes the key in
\* the same step
StoredBelowCeiling ==
    /\ ~lastQueue.ceiling
    /\ \A i \in 1..Len(queue) : objs[queue[i].obj].attemptCount < maxRetries

QueueKeys == {getQueueKey(c) : c \in LiveContexts}

\* C4: while the interval keeps firing, time goes on and every alertSender
\* call returns, every key in the queue leaves it again, and after the last
\* queueAlert call the queue becomes empty and stays empty.
C4_EventualResolution ==
    /\ \A key \in QueueKeys :
          (QueueIndex(queue, key) # 0) ~> (QueueIndex(queue, key) = 0)
    /\ <>[](queue = <<>>)

\* C4: the queue is empty after one alert was delivered and another became a
\* dead letter
C4_Witness ==
    /\ queue = <<>>
    /\ inflight = 0
    /\ deadLetterQueue # <<>>
    /\ \E o \in DOMAIN objs : objs[o].delivered

\* the interval fires in this step
TickFires == processorDue # 0 /\ processorDue' = processorDue + PROCESSOR_INTERVAL_MS

\* C13: at most one processQueue run is active and at most one alertSender
\* call of the processor is in flight; the flag is set exactly while a run
\* is active, so every run that ends clears it, whatever its sends returned;
\* a tick that fires during a run changes nothing of the queue or the run.
C13_SingleRun ==
    /\ [](/\ runs <= 1
          /\ calls <= 1
          /\ calls = 1 <=> inflight # 0
          /\ isProcessing <=> runs = 1)
    /\ [][(TickFires /\ isProcessing) =>
              UNCHANGED <<queue, objs, deadLetterQueue, isProcessing, ready, inflight,
                          runs, calls>>]_vars
    /\ [][runs' < runs => ~isProcessing' /\ calls' = 0]_vars

\* C13: a run has its first send in flight, another ready alert waits for
\* it, and the interval has fired since the send started
C13_Witness ==
    /\ isProcessing
    /\ runs = 1
    /\ calls = 1
    /\ ready # <<>>
    /\ processorDue >= lastStart.at + 2 * PROCESSOR_INTERVAL_MS

\* C14: a successful send of the processor leaves the queue without an entry
\* for the key of the alert and leaves the dead-letter store as it was, and
\* the processor starts no further send of a delivered alert.
C14_SuccessRemoves ==
    /\ [][(lastReturn' # lastReturn /\ lastReturn'.ok) =>
              /\ QueueIndex(queue', lastReturn'.key) = 0
              /\ deadLetterQueue' = deadLetterQueue]_vars
    /\ [][\A o \in DOMAIN objs :
              objs[o].delivered =>
                  /\ objs'[o].tries = objs[o].tries
                  /\ inflight' # o
                  /\ \A i \in 1..Len(ready') : ready'[i] # o
                  /\ \A i \in 1..Len(queue') : queue'[i].obj # o]_vars

\* C14: an alert was delivered by the processor, and an alert with the same
\* content, queued after that, has been sent by the processor
C14_Witness ==
    \E o, p \in DOMAIN objs :
        /\ o < p
        /\ objs[o].delivered
        /\ objs[o].tries = 1
        /\ objs[p].errorContext = objs[o].errorContext
        /\ objs[p].since >= lastReturn.t
        /\ objs[p].tries >= 1

\* min(initial * 2^k, cap)
Doubled(initial, cap, k) == IF initial * 2^k < cap THEN initial * 2^k ELSE cap

\* C24: under every configuration, the delay computed for each attempt count
\* k in 0..maxRetries-1 is min(initialBackoffMs * 2^k, maxBackoffMs); it is
\* maxBackoffMs at most and does not fall as k grows; every nextRetryAt that
\* queueAlert or retryAlert writes is the time of the write plus that delay
\* for the attempt count the alert holds after the write.
C24_BackoffFormula ==
    /\ [](probe # <<>> =>
             LET retry == probe[1].retry
                 delays == probe[1].delays
             IN  \A k \in 0..(retry.maxRetries - 1) :
                     /\ delays[k] = Doubled(retry.initialBackoffMs, retry.maxBackoffMs, k)
                     /\ delays[k] <= retry.maxBackoffMs
                     /\ k > 0 => delays[k - 1] <= delays[k])
    /\ [][\A o \in DOMAIN objs' :
              (o \notin DOMAIN objs \/ objs'[o].nextRetryAt # objs[o].nextRetryAt) =>
                  /\ objs'[o].attemptCount \in 0..(maxRetries - 1)
                  /\ objs'[o].nextRetryAt =
                        now + Doubled(initialBackoffMs, maxBackoffMs, objs'[o].attemptCount)]_vars

\* C24: the delays of a configuration double nine times before they reach
\* the cap, and a queued alert that failed once waits the capped delay
C24_Witness ==
    /\ probe # <<>>
    /\ probe[1].retry.maxRetries = 10
    /\ probe[1].delays[8] = 256 * probe[1].delays[0]
    /\ probe[1].delays[9] = probe[1].retry.maxBackoffMs
    /\ \E i \in 1..Len(queue) :
          /\ objs[queue[i].obj].attemptCount = 1
          /\ objs[queue[i].obj].nextRetryAt = objs[queue[i].obj].since + maxBackoffMs
          /\ maxBackoffMs < 2 * initialBackoffMs

\* stop() was called and queueAlert has not been called since
Stopped == stopAt = nQueued

\* what the queue stores, entry by entry
QueueContents(q, heap) == [i \in 1..Len(q) |-> Stored(q, heap, q[i].key)]

\* the step starts no send and leaves the queue and the dead-letter store
\* as they were
NoDelivery ==
    /\ \A o \in DOMAIN objs : objs'[o].tries = objs[o].tries
    /\ QueueContents(queue', objs') = QueueContents(queue, objs)
    /\ deadLetterQueue' = deadLetterQueue

\* C23 (as stated): after stop(), as long as queueAlert is not called again,
\* no send is started and the queue and the dead-letter store stay as they
\* are, also when a run was in progress at the stop.
C23_StopHaltsAll == [][(Stopped /\ Stopped') => NoDelivery]_vars

\* C23: after stop(), as long as queueAlert is not called again, no processor
\* run starts.  A run in progress at the stop goes on to its end: it starts
\* the sends of the alerts it had found ready, one after the other, and
\* nothing else.  Once no run is in progress, no send is started and the
\* queue and the dead-letter store stay as they are.
C23_StopHaltsRuns ==
    [][(Stopped /\ Stopped') =>
          /\ isProcessing' => isProcessing
          /\ ~isProcessing => NoDelivery
          /\ \A o \in DOMAIN objs :
                objs'[o].tries # objs[o].tries =>
                    /\ isProcessing
                    /\ ready # <<>>
                    /\ o = Head(ready)
                    /\ objs'[o].tries = objs[o].tries + 1]_vars

\* C23: the processor was stopped with no run in progress, the time of the
\* next attempt of a queued alert that failed once has passed, and the alert
\* is still in the queue
C23_Witness ==
    /\ Stopped
    /\ ~isProcessing
    /\ processorDue = 0
    /\ \E i \in 1..Len(queue) :
          /\ objs[queue[i].obj].attemptCount = 1
          /\ objs[queue[i].obj].nextRetryAt < now

\* ------------------------------------------------- sendErrorAlert properties
InDeadLetters(dl, context) ==
    \E i \in 1..Len(dl) : dl[i].errorContext = context

\* C12: sendErrorAlert never rejects.  When its send fails, the key of the
\* context is in the queue, or the context is in the dead-letter store, in
\* the state the call leaves; when its send succeeds, the call leaves the
\* queue, its entries and the dead-letter store as they were.
C12_FailureIsQueued ==
    [][lastDirect'.n # lastDirect.n =>
          /\ ~lastDirect'.rejected
          /\ IF lastDirect'.ok
               THEN /\ queue' = queue
                    /\ objs' = objs
                    /\ deadLetterQueue' = deadLetterQueue
               ELSE \/ /\ QueueIndex(queue', getQueueKey(lastDirect'.context)) # 0
                       /\ Stored(queue', objs', getQueueKey(lastDirect'.context))[1]
                              .errorContext = lastDirect'.context
                    \/ InDeadLetters(deadLetterQueue', lastDirect'.context)]_vars

\* C12: a send of sendErrorAlert has failed after another had succeeded, and
\* its context replaced the one queued with the same key
C12_Witness ==
    /\ lastDirect.n >= 2
    /\ ~lastDirect.ok
    /\ lastQueue.existed
    /\ lastQueue.errorContext = lastDirect.context
    /\ lastQueue.before[1].errorContext # lastDirect.context
    /\ QueueIndex(queue, getQueueKey(lastDirect.context)) # 0
    /\ \E o \in DOMAIN objs : objs[o].delivered

\* C17 (as stated): an event suppressed as a debounced or race duplicate has
\* made no getCachedProcessList call (callNow is the time of the call of its
\* handler) and no upstream fetch.
C17_DedupBeforeLookup ==
    lastCheck.outcome \in {"debounced", "race"} =>
        /\ lastCheck.callNow = 0
        /\ ~lastCheck.fetched

\* C17: every event that reaches the dedup check, admitted or suppressed, has
\* called getCachedProcessList before the check, and that call fetched
\* upstream exactly when the slot was empty or PROCESS_LIST_CACHE_MS old.
C17_LookupBeforeDedup ==
    lastCheck.t # 0 =>
        /\ lastCheck.callNow >= StartTime
        /\ lastCheck.callNow <= lastCheck.t
        /\ lastCheck.fetched <=>
               (lastCheck.slotAge = -1 \/ lastCheck.slotAge >= PROCESS_LIST_CACHE_MS)

\* C17: a debounced event had found the slot PROCESS_LIST_CACHE_MS old or
\* older and fetched the list upstream
C17_Witness ==
    /\ lastCheck.outcome = "debounced"
    /\ lastCheck.fetched
    /\ lastCheck.slotAge = PROCESS_LIST_CACHE_MS

\* ------------------------------------------------------ pipeline properties
\* the processing key of a context: `${processId}:${errorHash}`
ProcessingKey(c) == <<c.processId, hashError(c.errorMessage, c.processName)>>

\* C15 (as stated): while the alert attempt started for an admitted error has
\* not finished, its key is in the processing set.
C15_HeldUntilAttemptEnds ==
    \A c \in BagToSet(direct) : ProcessingKey(c) \in processingErrors

\* C15: the key of an admitted error is in the processing set while its
\* context is assembled and for 1000 ms after the assembly ended and the alert
\* attempt was started; it is removed then, by the timer armed at that time,
\* whether the attempt has finished or not.
C15_SingleFlightRelease ==
    /\ [](/\ \A e \in Handlers :
                e.pc = "discover" =>
                    <<e.pid, hashError(e.msg, e.list[e.pid])>> \in processingErrors
          /\ \A t \in releaseTimers :
                /\ t.key \in processingErrors
                /\ now <= t.armed + 1000
          /\ \A k \in processingErrors :
                \/ \E e \in Handlers :
                      e.pc = "discover" /\ k = <<e.pid, hashError(e.msg, e.list[e.pid])>>
                \/ \E t \in releaseTimers : t.key = k)
    /\ [][\A k \in processingErrors \ processingErrors' :
              \E t \in releaseTimers : t.key = k /\ now = t.armed + 1000]_vars

\* C15: the key of an admitted error was removed while the alert attempt
\* started for it is in flight, and no attempt has finished yet
C15_Witness ==
    /\ lastDirect.n = 0
    /\ \E c \in BagToSet(direct) :
          /\ ProcessingKey(c) \notin processingErrors
          /\ \A t \in releaseTimers : t.key # ProcessingKey(c)

\* the contexts that wait in the queue or in the dead-letter store
Waiting ==
    {objs[queue[i].obj].errorContext : i \in 1..Len(queue)} \cup
    {deadLetterQueue[i].errorContext : i \in 1..Len(deadLetterQueue)}

\* C16 (as stated): the log lines of a context that waits in the queue or in
\* the dead-letter store are the lines it held when it was built.
C16_ContextIsSnapshot ==
    \A c \in Waiting : LinesOf(logBuffers, c.logContext) = c.built

\* the upstream fetch of handler e fails in this step: handleError ends
FetchFails(e) == e.pc = "fetching" /\ hs' = hs (-) SetToBag({e})

\* what a dropped event leaves alone: the recently-seen table, the processing
\* set, the sender, the retry queue and the dead-letter store
DropsEvent ==
    /\ errorHashes' = errorHashes
    /\ processingErrors' = processingErrors
    /\ releaseTimers' = releaseTimers
    /\ sent' = sent
    /\ direct' = direct
    /\ queue' = queue
    /\ objs' = objs
    /\ deadLetterQueue' = deadLetterQueue

Alerted ==
    {[processId |-> sent[i].processId] : i \in 1..Len(sent)} \cup
    {[processId |-> c.processId] : c \in BagToSet(direct) \cup Waiting}

\* the admission check of handler e ends its handleError call in this step
CheckDrops(e) == e.pc = "gotList" /\ hs' = hs (-) SetToBag({e})

\* C20: the admission check answers 'unknown' exactly for the events whose
\* process id the list does not hold; such an event is never admitted, its
\* check ends the handler and leaves the recently-seen table, the processing
\* set, the sender, the retry queue and the dead-letter store as they were,
\* and no context of such a process is ever sent, queued or dead-lettered.
C20_UnknownDropped ==
    /\ [](/\ lastCheck.t # 0 =>
                (lastCheck.outcome = "unknown" <=> lastCheck.pid \notin DOMAIN Directory)
          /\ \A e \in Handlers : e.pc = "discover" => e.pid \in DOMAIN Directory
          /\ \A c \in Alerted : c.processId \in DOMAIN Directory)
    /\ [][\A e \in Handlers :
              (e.pc = "gotList" /\ e.pid \notin DOMAIN e.list) =>
                  /\ CheckDrops(e) \/ BagIn(e, hs')
                  /\ CheckDrops(e) => DropsEvent]_vars

\* C20: an event of the unlisted process has been dropped by its check while
\* the alert of a listed process waits in the retry queue
C20_Witness ==
    /\ lastCheck.outcome = "unknown"
    /\ lastCheck.pid = UnknownPid
    /\ UnknownPid \in DOMAIN logBuffers
    /\ queue # <<>>
    /\ \A e \in Handlers : e.pid # UnknownPid

\* the text of the event is empty or white space only, or it has no process id
NoText(line) == \A i \in 1..Len(line) : line[i] = SPACE
Malformed(p, line) == p = NoPid \/ NoText(line)

\* C21: a stderr event without a process id, or whose text is empty or white
\* space only, starts no handler and no getCachedProcessList call, and leaves
\* the recently-seen table, the processing set, the cache slot, the retry
\* queue and the dead-letter store as they were.
C21_EmptyDroppedEarly ==
    [][\A p \in {NoPid, 0}, line \in {<<>>, LineBlank, LineErrPad} :
          (Malformed(p, line) /\ LogEvent(p, line, TRUE)) =>
              /\ hs' = hs
              /\ lastCall' = lastCall
              /\ processListCache' = processListCache
              /\ DropsEvent]_vars

\* C21: a line of white space of the listed process was stored and dropped,
\* with the fingerprint of an earlier error in the recently-seen table, the
\* list in the cache slot and no handler suspended
C21_Witness ==
    /\ lastLog.pid = 0
    /\ lastLog.line = LineBlank
    /\ lastLog.err
    /\ 0 \in DOMAIN logBuffers
    /\ logBuffers[0][Len(logBuffers[0])] = LineBlank
    /\ errorHashes # NoHashes
    /\ processListCache # <<>>
    /\ hs = EmptyBag

\* ---------------------------------------------------- lifecycle properties
\* C22 (as stated): once EXIT_GRACE_MS have passed since the 'exit' event
\* of a process, whatever its id, the supervisor is asked for a fresh list
\* (the timer is due, the call is awaited, or it has ended); when the call
\* ends with the process absent or with a failure, the buffer of the process
\* is deleted and the cache slot cleared, otherwise both are left as they
\* were; no lifecycle event deletes a buffer by itself, and a later log line
\* creates the buffer anew.
C22_ExitEvicts ==
    /\ [](\A p \in DOMAIN exited :
             now >= exited[p] + EXIT_GRACE_MS =>
                 \/ \E t \in exitTimers : t.pid = p /\ t.due <= now
                 \/ \E c \in exitChecks : c.pid = p /\ c.at >= exited[p] + EXIT_GRACE_MS
                 \/ p \in DOMAIN lastExit /\ lastExit[p].t >= exited[p] + EXIT_GRACE_MS)
    /\ [][\A c \in exitChecks \ exitChecks' :
              IF lastExit'[c.pid].answer = "listed"
                THEN logBuffers' = logBuffers /\ processListCache' = processListCache
                ELSE c.pid \notin DOMAIN logBuffers' /\ processListCache' = <<>>]_vars
    /\ [][nEvents' # nEvents => logBuffers' = logBuffers]_vars
    /\ [][\A p \in {0, 1} :
              (p \notin DOMAIN logBuffers /\ p \in DOMAIN logBuffers') =>
                  logBuffers'[p] = <<LineOk>>]_vars

\* ---------------------------------------------------- limiter properties
\* C8: of the checkLimit calls of one limiter for one identifier in one
\* 60-second window, counted from the call that opened it, the first
\* maxRequests are allowed and every further one is refused with
\* retryAfter = ceil((resetAt - now) / 1000), which is 1 at least and 60 at
\* most; a refused call leaves the entry as it was.
C8_RateLimitBound ==
    lastLimit.t # 0 =>
        LET M == MaxRequests[lastLimit.limiter]
            resetAt == lastLimit.windowStart + 60000
            left == resetAt - lastLimit.t
        IN  /\ lastLimit.allowed <=> lastLimit.index <= M
            /\ lastLimit.after[1].resetAt = resetAt
            /\ lastLimit.allowed => lastLimit.after[1].count = lastLimit.index
            /\ ~lastLimit.allowed =>
                  /\ lastLimit.retryAfter * 1000 >= left
                  /\ (lastLimit.retryAfter - 1) * 1000 < left
                  /\ lastLimit.retryAfter \in 1..60
                  /\ lastLimit.before = lastLimit.after
                  /\ lastLimit.after[1].count = M

\* C8: a call over the limit of two was refused half a second before its
\* window ends
C8_Witness ==
    /\ lastLimit.t # 0
    /\ ~lastLimit.allowed
    /\ lastLimit.retryAfter = 1
    /\ lastLimit.windowStart + 60000 - lastLimit.t = 500
    /\ MaxRequests[lastLimit.limiter] > 1

\* the step is a checkLimit call of limiter l for identifier i
Calls(l, i) ==
    /\ lastLimit' # lastLimit
    /\ lastLimit'.limiter = l
    /\ lastLimit'.identifier = i

\* the entry of limiter l for identifier i, <<>> when the map has none
EntryOf(map, l, i) == IF i \in DOMAIN map[l] THEN <<map[l][i]>> ELSE <<>>

\* C25: a checkLimit call of one limiter for one identifier leaves every
\* entry of another identifier, and every entry of the other limiter, as it
\* was; an entry is created or changed only by a call of its own limiter for
\* its own identifier (and removed by the sweep of its limiter); the answer
\* of a call depends on the entry of its own limiter and identifier alone, so
\* a first call is allowed whatever the other entries hold.
C25_Independence ==
    [][\A l \in Limiters : \A i \in Clients[l] :
          /\ (\E m \in Limiters : \E j \in Clients[m] : <<m, j>> # <<l, i>> /\ Calls(m, j)) =>
                EntryOf(entries', l, i) = EntryOf(entries, l, i)
          /\ (EntryOf(entries', l, i) # EntryOf(entries, l, i) /\ cleanupDue' = cleanupDue) =>
                lastLimit'.limiter = l /\ lastLimit'.identifier = i /\ lastLimit'.t = now
          /\ Calls(l, i) =>
                (lastLimit'.allowed <=>
                    \/ EntryOf(entries, l, i) = <<>>
                    \/ entries[l][i].resetAt <= now
                    \/ entries[l][i].count < MaxRequests[l])]_vars

\* C25: the first call of the health endpoint for a client was allowed while
\* the limit of the same client at the other endpoint is exhausted and the
\* other client has no entry there
C25_Witness ==
    /\ lastLimit.limiter = "health"
    /\ lastLimit.identifier = "10.0.0.1"
    /\ lastLimit.allowed
    /\ lastLimit.before = <<>>
    /\ "10.0.0.1" \in DOMAIN entries["slash"]
    /\ entries["slash"]["10.0.0.1"].count = slashCommandRpm
    /\ entries["slash"]["10.0.0.1"].resetAt > now
    /\ "10.0.0.2" \notin DOMAIN entries["slash"]

\* the entry a call at `t` leaves when it starts a window
FreshWindow(t) == [count |-> 1, resetAt |-> t + 60000, windowStart |-> t]

\* C26: a checkLimit call for an identifier whose entry has resetAt <= now,
\* or whose entry the sweep has removed, is allowed and leaves the entry
\* count 1, resetAt = now + 60 s, windowStart = now; while resetAt > now no
\* step removes the entry or moves its resetAt or windowStart, and a call in
\* the window changes at most the count.
C26_LazyReset ==
    [][\A l \in Limiters : \A i \in Clients[l] :
          LET had == EntryOf(entries, l, i) IN
          /\ (Calls(l, i) /\ (had = <<>> \/ had[1].resetAt <= now)) =>
                /\ lastLimit'.allowed
                /\ EntryOf(entries', l, i) = <<FreshWindow(now)>>
          /\ (had # <<>> /\ had[1].resetAt > now) =>
                /\ i \in DOMAIN entries'[l]
                /\ entries'[l][i].resetAt = had[1].resetAt
                /\ entries'[l][i].windowStart = had[1].windowStart
                /\ entries'[l][i].count \in {had[1].count, had[1].count + 1}]_vars

\* C26: a call made at the very instant the window of an exhausted entry
\* ends, the sweep of its limiter not having run yet, was allowed and
\* started a window
C26_Witness ==
    /\ lastLimit.had # <<>>
    /\ lastLimit.had[1].resetAt = lastLimit.t
    /\ lastLimit.had[1].count = MaxRequests[lastLimit.limiter]
    /\ cleanupDue[lastLimit.limiter] = StartTime + CLEANUP_INTERVAL_MS
    /\ lastLimit.allowed
    /\ lastLimit.after = <<FreshWindow(lastLimit.t)>>

\* the alert object is one whose failures reached the limit: retryAlert
\* moved it to the dead letters in the step that made this true
DeadLettered(heap, o) == heap[o].attemptCount >= maxRetries

\* the references the processor can still send: the Map, the alerts of the
\* run not yet retried, and the one in flight
Pending(q, rdy, fl) ==
    {q[i].obj : i \in 1..Len(q)} \cup {rdy[i] : i \in 1..Len(rdy)} \cup ({fl} \ {0})

KeyOf(c) ==
    c.processName \o <<58>> \o
        [i \in 1..(IF Len(c.errorMessage) < 50 THEN Len(c.errorMessage) ELSE 50) |->
            c.errorMessage[i]]

\* the keys of the contexts the queue holds
PendingKeys(q, heap) == {KeyOf(heap[q[i].obj].errorContext) : i \in 1..Len(q)}

\* C28: the queue holds one entry per key of the contexts in it, each under
\* the key of its context.  A queueAlert call for a context whose key is not
\* in the queue makes the queue one longer, the new entry holding that
\* context with attemptCount 0; a call for a key that is in the queue leaves
\* the size and puts the context into the entry of that key; either way the
\* entries of the other keys stay as they are and no send is started.
C28_OneEntryPerKey ==
    /\ [](/\ Len(queue) = Cardinality(PendingKeys(queue, objs))
          /\ \A i \in 1..Len(queue) : queue[i].key = KeyOf(objs[queue[i].obj].errorContext))
    /\ [][nQueued' # nQueued =>
            LET c == lastQueue'.errorContext
                was == KeyOf(c) \in PendingKeys(queue, objs)
            IN  /\ KeyOf(c) \in PendingKeys(queue', objs')
                /\ \E i \in 1..Len(queue') :
                      /\ objs'[queue'[i].obj].errorContext = c
                      /\ ~was => objs'[queue'[i].obj].attemptCount = 0
                /\ Len(queue') = Len(queue) + (IF was THEN 0 ELSE 1)
                /\ \A i \in 1..Len(queue) :
                      queue[i].key # KeyOf(c) =>
                          /\ queue'[i] = queue[i]
                          /\ objs'[queue[i].obj] = objs[queue[i].obj]
                /\ inflight' = inflight
                /\ lastStart' = lastStart
                /\ \A o \in 1..Len(objs) : objs'[o].tries = objs[o].tries]_vars

\* C28: three calls left two entries: the second context with the first 50
\* characters of the first one's message went into the entry of the first,
\* and the context of another process has its own
C28_Witness ==
    /\ nQueued = 3
    /\ Len(queue) = 2
    /\ lastQueue.errorContext = CtxA2
    /\ lastQueue.before # <<>>
    /\ lastQueue.before[1].errorContext = CtxA
    /\ lastQueue.after[1].errorContext = CtxA2
    /\ CtxB \in {objs[queue[i].obj].errorContext : i \in 1..Len(queue)}

\* C29: pm2.connect is called at most once between two stop() calls; a
\* start() call on a running monitor calls no connect; a stop() call on a
\* monitor that is not running calls no disconnect.
C29_StartIdempotent ==
    /\ [](connects <= 1)
    /\ [][/\ (nLife' # nLife /\ isRunning) => connecting' <= connecting
          /\ (nLife' # nLife /\ ~isRunning) => disconnects' = disconnects]_vars

\* the numbers of the requests answered so far
Answered == {responses[i].id : i \in 1..Len(responses)}

\* C30: a GET /health request the limiter allows starts one process-list
\* fetch and nothing else; when its fetch ends it is answered, once, 200 / OK
\* with the number of processes listed if the fetch succeeded and 503 / ERROR
\* if it failed, whatever the earlier requests got; the end of a fetch starts
\* no other fetch and leaves the cache slot and the limiters as they were.
C30_HealthReportsFetch ==
    /\ [](/\ \A i \in 1..Len(responses) :
                LET r == responses[i] IN
                /\ r.code \in {200, 503, 429}
                /\ r.code = 429 <=> r.ans = <<>>
                /\ r.code = 200 <=>
                      (r.ans # <<>> /\ ~r.ans[1].err /\ r.status = "OK"
                         /\ r.processCount =
                               (IF r.ans[1].list = "undefined" THEN 0 ELSE Len(r.ans[1].list)))
                /\ r.code = 503 <=> (r.ans # <<>> /\ r.ans[1].err /\ r.status = "ERROR")
          /\ \A i, j \in 1..Len(responses) : responses[i].id = responses[j].id => i = j
          /\ Answered \cap {r.id : r \in healthReqs} = {}
          /\ Answered \cup {r.id : r \in healthReqs} = 1..nHealth)
    /\ [][/\ (nHealth' # nHealth /\ lastLimit'.allowed) =>
                /\ healthReqs' = healthReqs \cup {[id |-> nHealth', at |-> now]}
                /\ responses' = responses
                /\ processListCache' = processListCache
          /\ (nHealth' = nHealth /\ responses' # responses) =>
                /\ \E r \in healthReqs : /\ healthReqs' = healthReqs \ {r}
                                          /\ responses' = Append(responses, responses'[Len(responses')])
                                          /\ responses'[Len(responses')].id = r.id
                /\ processListCache' = processListCache
                /\ entries' = entries]_vars

\* C30: the first request was answered 503 after its fetch failed, and the
\* next request the limiter allowed was answered 200 with the two processes
\* its own fetch listed
C30_Witness ==
    \E i, j \in 1..Len(responses) :
        /\ i < j
        /\ responses[i].id < responses[j].id
        /\ responses[i].code = 503
        /\ responses[j].code = 200
        /\ responses[j].processCount = 2
        /\ healthReqs = {}

\* the requests of both routes whose process-list fetch is pending
Fetching == healthReqs \cup slashReqs

\* C31: a request to /slack/status or /health that the limiter refuses is
\* answered 429 with a Retry-After of 1 to 60 seconds in the same step and
\* starts no process-list fetch; a fetch is started only by a request the
\* limiter allowed; and for every endpoint, client and window the number of
\* fetches started is at most the limit of the endpoint.
C31_LimiterShields ==
    /\ [](\A k \in DOMAIN started : started[k] <= MaxRequests[k[1]])
    /\ [][/\ (nHealth' # nHealth /\ ~lastLimit'.allowed) =>
                /\ Len(responses') = Len(responses) + 1
                /\ responses'[Len(responses')].id = nHealth'
                /\ responses'[Len(responses')].code = 429
                /\ responses'[Len(responses')].retryAfter \in 1..60
                /\ Fetching' = Fetching
                /\ started' = started
          /\ (~(Fetching' \subseteq Fetching) \/ started' # started) =>
                /\ nHealth' = nHealth + 1
                /\ lastLimit'.allowed
                /\ lastLimit'.t = now
                /\ Cardinality(Fetching') = Cardinality(Fetching) + 1]_vars

\* C31: a client has had as many fetches started in one window of the slash
\* command as the limit allows, and its next request in that window was
\* answered 429
C31_Witness ==
    /\ ~lastLimit.allowed
    /\ lastLimit.limiter = "slash"
    /\ <<"slash", lastLimit.identifier, lastLimit.windowStart>> \in DOMAIN started
    /\ started[<<"slash", lastLimit.identifier, lastLimit.windowStart>>] = slashCommandRpm
    /\ responses # <<>>
    /\ responses[Len(responses)].code = 429
    /\ responses[Len(responses)].retryAfter >= 1

\* the step is a run of the periodic sweep
SweepRuns == sweepDue # 0 /\ sweepDue' = sweepDue + HASH_CLEANUP_INTERVAL

\* would the table suppress an event with this fingerprint at time t
Suppresses(table, h, t) ==
    h \in DOMAIN table /\ table[h] # 0 /\ t - table[h] < DEBOUNCE_MS

\* C32: a run of the sweep leaves no entry older than DEBOUNCE_MS, leaves
\* every entry of age <= DEBOUNCE_MS as it was, and removes only entries
\* that suppress no event now or later: for every fingerprint and every later
\* time the table suppresses after the run exactly what it suppressed before.
\* No other step removes an entry.
C32_SweepKeepsDebounce ==
    [][/\ SweepRuns =>
             /\ \A h \in DOMAIN errorHashes' : now - errorHashes'[h] <= DEBOUNCE_MS
             /\ \A h \in DOMAIN errorHashes :
                   IF now - errorHashes[h] <= DEBOUNCE_MS
                     THEN h \in DOMAIN errorHashes' /\ errorHashes'[h] = errorHashes[h]
                     ELSE h \notin DOMAIN errorHashes'
             /\ DOMAIN errorHashes' \subseteq DOMAIN errorHashes
             /\ \A h \in DOMAIN errorHashes :
                   \A d \in {0, 1, DEBOUNCE_MS - 1, DEBOUNCE_MS, HASH_CLEANUP_INTERVAL} :
                       Suppresses(errorHashes', h, now + d) <=> Suppresses(errorHashes, h, now + d)
       /\ ~SweepRuns => DOMAIN errorHashes \subseteq DOMAIN errorHashes']_vars

\* C32: the sweep has just run and removed the entry of an error admitted
\* more than DEBOUNCE_MS before, while the entry of an error admitted inside
\* the window is still there
C32_Witness ==
    /\ sweepDue = now + HASH_CLEANUP_INTERVAL
    /\ nAdmitted = 2
    /\ Cardinality(DOMAIN lastAdmit) = 2
    /\ Cardinality(DOMAIN errorHashes) = 1
    /\ \E h \in DOMAIN errorHashes : Suppresses(errorHashes, h, now)

\* history: the calls the limiter allowed in the window of the client that
\* is open at time t; 0 when none is open
AllowedInWindow(l, i, t) ==
    IF i \in DOMAIN windows[l] /\ t < windows[l][i].start + 60000
      THEN (IF windows[l][i].calls < MaxRequests[l] THEN windows[l][i].calls
            ELSE MaxRequests[l])
      ELSE 0

\* C33: getRemaining(id, M) returns M minus the number of calls allowed in
\* the window of id that is open, and not less than 0 (so M when no window
\* is open, whether the elapsed entry is still stored or not); it changes
\* nothing of the limiters; and it returns 0 exactly when a window is open in
\* which M calls or more have been allowed, which is when checkLimit(id, M)
\* would refuse.
C33_RemainingIsPure ==
    [][probe' # probe =>
          LET r == probe'[1]
              used == AllowedInWindow(r.limiter, r.identifier, now)
          IN  /\ r.value = (IF r.maxRequests - used < 0 THEN 0 ELSE r.maxRequests - used)
              /\ r.value = 0 <=> used >= r.maxRequests
              /\ r.value = 0 <=>
                    /\ r.identifier \in DOMAIN entries[r.limiter]
                    /\ entries[r.limiter][r.identifier].resetAt > now
                    /\ entries[r.limiter][r.identifier].count >= r.maxRequests
              /\ entries' = entries
              /\ cleanupDue' = cleanupDue
              /\ windows' = windows
              /\ lastLimit' = lastLimit]_vars

\* C33: the reading returned the whole limit for a client whose exhausted
\* entry is still stored although its window has ended
C33_Witness ==
    /\ probe # <<>>
    /\ probe[1].t = now
    /\ probe[1].limiter = "slash"
    /\ probe[1].maxRequests = slashCommandRpm
    /\ probe[1].value = slashCommandRpm
    /\ probe[1].identifier \in DOMAIN entries["slash"]
    /\ entries["slash"][probe[1].identifier].count = slashCommandRpm
    /\ entries["slash"][probe[1].identifier].resetAt = now

\* C34: every entry of the active queue has an attempt count from 0 up to
\* maxRetries - 1, and every dead letter in the store has the attempt count
\* maxRetries and nextRetryAt 0.
C34_AttemptCeiling ==
    /\ \A i \in 1..Len(queue) :
          /\ objs[queue[i].obj].attemptCount >= 0
          /\ objs[queue[i].obj].attemptCount < maxRetries
    /\ \A i \in 1..Len(deadLetterQueue) :
          /\ deadLetterQueue[i].attemptCount = maxRetries
          /\ deadLetterQueue[i].nextRetryAt = 0

\* C34: an alert one failure short of the ceiling waits in the queue while
\* the store holds a dead letter made by a failed send
C34_Witness ==
    /\ \E i \in 1..Len(queue) : objs[queue[i].obj].attemptCount = maxRetries - 1
    /\ deadLetterQueue # <<>>
    /\ lastReturn.dead

\* C35: an entry leaves the active queue only in one of three ways: a
\* queueAlert call stores another entry under its key, or the processor
\* deletes its key after the send of this very entry succeeded, or after the
\* failure of the send of this very entry moved it to the dead-letter store.
\* So whenever the processor deletes a key, the entry stored under the key is
\* the one it has just sent or moved.
C35_NoSilentDrop ==
    [][\A i \in 1..Len(queue) :
          \/ /\ QueueIndex(queue', queue[i].key) # 0
             /\ queue'[QueueIndex(queue', queue[i].key)].obj = queue[i].obj
          \/ /\ QueueIndex(queue', queue[i].key) # 0
             /\ nQueued' = nQueued + 1
             /\ lastQueue'.key = queue[i].key
          \/ /\ QueueIndex(queue', queue[i].key) = 0
             /\ inflight = queue[i].obj
             /\ lastReturn'.obj = queue[i].obj
             /\ lastReturn'.ok \/ lastReturn'.dead]_vars

\* C36: whenever the processor starts a delivery attempt for a key, the time
\* is at or after the nextRetryAt that the queue stores for that key at that
\* moment.
C36_BackoffRespected ==
    [][lastStart' # lastStart =>
          \A i \in 1..Len(queue') :
              queue'[i].key = lastStart'.key =>
                  now' >= objs'[queue'[i].obj].nextRetryAt]_vars

\* C37: two errors of the same process whose texts differ within their
\* first 100 characters get different fingerprints, and so do two errors of
\* processes with different names, so that the admission of one does not
\* debounce the other; two errors with the same process name and the same
\* first 100 characters get the same fingerprint.
C37_FingerprintSeparates ==
    probe # <<>> =>
        LET a == probe[1].a
            b == probe[1].b
            sameText == Substring0(a.errorMessage, 100) = Substring0(b.errorMessage, 100)
            distinct == a.processName # b.processName \/ ~sameText
        IN  /\ distinct => probe[1].hashA # probe[1].hashB
            /\ distinct => ~Debounced(RecordAdmission(NoHashes, probe[1].hashA, now),
                                      probe[1].hashB, now)
            /\ ~distinct => probe[1].hashA = probe[1].hashB

\* C38: a write of the cache slot never lowers the timestamp of the snapshot
\* stored (a snapshot whose fetch started later is not replaced by one whose
\* fetch started earlier), and a call is answered from the slot only while
\* the snapshot is younger than PROCESS_LIST_CACHE_MS.
C38_CacheMonotonic ==
    [][/\ processListCache # <<>> /\ processListCache' # <<>> =>
              processListCache'[1].timestamp >= processListCache[1].timestamp
       /\ \A e \in BagToSet(hs') :
              ~e.fetched => e.slotAge >= 0 /\ e.slotAge < PROCESS_LIST_CACHE_MS]_vars

\* the key of a suspended handler, and is its context being assembled
HandlerKey(e) == <<e.pid, hashError(e.msg, e.list[e.pid])>>
Assembling(k) == \E e \in Handlers : e.pc = "discover" /\ HandlerKey(e) = k

\* the latest admission so far
LatestAdmission == CHOOSE t \in {lastAdmit[f] : f \in DOMAIN lastAdmit} :
                      \A f \in DOMAIN lastAdmit : lastAdmit[f] <= t

\* C39: every key added to the currently-processing set is removed 1 second
\* after it was added, so the set is empty once no error has been admitted
\* for more than 1 second.
C39_DrainsAfterAdmission ==
    (nAdmitted > 0 /\ now - LatestAdmission > PROCESSING_RELEASE_MS) => processingErrors = {}

\* C39, amended: a key of the currently-processing set is held while the
\* context of its error is assembled and has a release timer from then on,
\* on every path (context sent, send failed and queued, assembly threw); the
\* key leaves the set when that timer fires, 1 second after the assembly
\* ended, and in no other way; so the set is empty once no assembly is
\* pending and none has ended within the last second.
C39_DrainsAfterAssembly ==
    /\ [](\A k \in processingErrors :
              \/ Assembling(k)
              \/ \E t \in releaseTimers :
                     /\ t.key = k
                     /\ t.due = t.armed + PROCESSING_RELEASE_MS
                     /\ now <= t.due)
    /\ []((/\ \A e \in Handlers : e.pc # "discover"
           /\ \A t \in releaseTimers : now > t.armed + PROCESSING_RELEASE_MS)
              => processingErrors = {})
    /\ [][\A k \in processingErrors \ processingErrors' :
              \E t \in releaseTimers \ releaseTimers' :
                  /\ t.key = k
                  /\ now = t.armed + PROCESSING_RELEASE_MS]_vars

\* C39: an error was admitted, the assembly of its context threw, and the
\* set is empty again with no timer left
C39_Witness ==
    /\ nAdmitted > 0
    /\ sent = <<>>
    /\ hs = EmptyBag
    /\ releaseTimers = {}
    /\ processingErrors = {}
    /\ now - LatestAdmission >= PROCESSING_RELEASE_MS

====
